---- MODULE Spec2Model ----
(***************************************************************************)
(* Verification model of the MPK isolation passes of trust-sec23:          *)
(*   Part I  - the demand-driven backward propagator                       *)
(*             (mpk-svf/lib/WPA/WPAPass.cpp, class MPKRustIsolation)       *)
(*   Part II - the unsafe-call registry, function cloning and call-site    *)
(*             rewriting (mpk-svf/lib/DDA/DDAPass.cpp)                     *)
(***************************************************************************)
EXTENDS Integers, Sequences, FiniteSets, TLC

VARIABLES
    \* ---- Part I: MPKRustIsolation ----
    svfgEdges,        \* the value-flow edges of the analysed graph
    edgeOrderAsc,     \* iteration order of the edge sets (layout dependent)
    pendingQueries,   \* PAG ids computePaths has not been called for yet
    bkStack,          \* call stack of findPaths/handleSingleStatement frames
    backwardVisited,  \* MPKRustIsolation::backwardVisited
    finalAddrDpmSet,  \* MPKRustIsolation::finalAddrDpmSet
    handledLog,       \* history: items given to handleSingleStatement, in order
    bkAborted,        \* assert(false && "unknown node") fired
    \* ---- Part II: DDAPass ----
    pc,               \* position of DDAPass::runOnModule
    heapPaths,        \* getFinalHeapDpms(), the part not yet iterated over
    dda,              \* the registries and the module (see InitDda)
    funcQueue,        \* MpkRedefinedMap entries replaceUnsafeCalls still visits
    \* ---- Part III: the library classifier ----
    FuncName,         \* the name handed to isRustLibraryFunc(string)
    libAnswer,        \* the values the call has returned (empty before it returns)
    \* ---- Part IV: the runtime library ----
    thr,              \* per thread: position, thread-specific value, r15, ...
    mem               \* the heap blocks of the runtime

bkVars == <<svfgEdges, edgeOrderAsc, pendingQueries, bkStack, backwardVisited,
            finalAddrDpmSet, handledLog, bkAborted>>

passVars == <<pc, heapPaths, dda, funcQueue>>

libVars == <<FuncName, libAnswer>>

rtVars == <<thr, mem>>

restVars == <<libVars, rtVars>>

vars == <<bkVars, passVars, restVars>>

\* the parts of the state a pass does not use
RestIdle ==
    /\ FuncName = <<>>
    /\ libAnswer = <<>>
    /\ mem = <<>>
    /\ thr = <<>>

(***************************************************************************)
(* Bounds                                                                  *)
(***************************************************************************)
MaxRemoved == 1      \* edges left out of the candidate value-flow graph
MaxDepth == 40       \* cap of the findPaths recursion depth

(***************************************************************************)
(* Part I - static structure: call graph and value-flow graph              *)
(***************************************************************************)
NoCS == 0

\* PTACallGraph call-site ids: id -> call instruction (cbn), caller, callee.
\* f calls g twice (1, 6); g calls itself (2); g and h call each other
\* (3, 4); g calls m (5).
CallSiteTable ==
    [i \in 1..6 |->
        CASE i = 1 -> [cbn |-> 1, caller |-> "f", callee |-> "g"]
          [] i = 2 -> [cbn |-> 2, caller |-> "g", callee |-> "g"]
          [] i = 3 -> [cbn |-> 3, caller |-> "g", callee |-> "h"]
          [] i = 4 -> [cbn |-> 4, caller |-> "h", callee |-> "g"]
          [] i = 5 -> [cbn |-> 5, caller |-> "g", callee |-> "m"]
          [] OTHER -> [cbn |-> 6, caller |-> "f", callee |-> "g"]]

CGFuncs == {"f", "g", "h", "m"}

CallsDirectly(a, b) ==
    \E i \in DOMAIN CallSiteTable :
        CallSiteTable[i].caller = a /\ CallSiteTable[i].callee = b

RECURSIVE ReachSet(_, _)
ReachSet(S, k) ==
    IF k = 0 THEN S
    ELSE LET T == S \cup {b \in CGFuncs : \E a \in S : CallsDirectly(a, b)}
         IN IF T = S THEN S ELSE ReachSet(T, k - 1)

CallReach(a, b) ==
    b \in ReachSet({c \in CGFuncs : CallsDirectly(a, c)}, Cardinality(CGFuncs))

\* the call graph's strongly connected components, as pairs of functions
SameSCCPairs ==
    {p \in CGFuncs \X CGFuncs :
        p[1] = p[2] \/ (CallReach(p[1], p[2]) /\ CallReach(p[2], p[1]))}

\* PointerAnalysis::inSameCallGraphSCC: same SCC representative.
inSameCallGraphSCC(a, b) == <<a, b>> \in SameSCCPairs

\* PTACallGraph::hasCallSiteID / getCallSiteID(cbn, callee); 0 when absent.
getCallSiteID(cbn, callee) ==
    LET S == {i \in DOMAIN CallSiteTable :
                 CallSiteTable[i].cbn = cbn /\ CallSiteTable[i].callee = callee}
    IN IF S = {} THEN NoCS ELSE CHOOSE i \in S : TRUE

\* SVFG nodes: kind and enclosing function.
SVFGNodes == 1..11

NodeKind ==
    [n \in SVFGNodes |->
        CASE n \in {1, 2, 3, 7, 9, 11} -> "Direct"    \* copy, phi, parm, ret
          [] n = 4 -> "Load"
          [] n = 5 -> "MR"
          [] n = 6 -> "Store"
          [] n = 8 -> "AddrCall"                  \* address of a call result
          [] OTHER -> "Gep"]                      \* a kind with no handler

NodeFun ==
    [n \in SVFGNodes |->
        CASE n \in {1, 11} -> "f"
          [] n \in {2, 3, 4, 5, 6, 10} -> "g"
          [] n = 7 -> "h"
          [] OTHER -> "m"]

\* StoreSVFGNode: definition node and PAG id of the stored value
\* (0 when the stored value is not a pointer).
StoreSrcNode == [n \in {6} |-> 9]
StoreSrcId == [n \in {6} |-> 2]
StoreSrcIsPointer == [n \in {6} |-> TRUE]

Edge(s, d, ind, k, c) == [src |-> s, dst |-> d, ind |-> ind, ek |-> k, cbn |-> c]

CandidateEdgeSeq ==
    << Edge(2, 1, FALSE, "ret", 1),    \* g returns to f at call site 1
      Edge(3, 2, FALSE, "intra", 0),
      Edge(2, 3, FALSE, "ret", 2),    \* g returns to itself
      Edge(7, 3, FALSE, "ret", 3),    \* h returns to g
      Edge(2, 7, FALSE, "ret", 4),    \* g returns to h
      Edge(1, 3, FALSE, "call", 1),   \* f passes an argument to g
      Edge(1, 3, FALSE, "call", 6),   \* second call of g in f
      Edge(9, 3, FALSE, "ret", 5),    \* m returns to g
      Edge(8, 9, FALSE, "intra", 0),  \* allocation call in m
      Edge(4, 3, FALSE, "intra", 0),  \* load result
      Edge(5, 4, TRUE, "intra", 0),   \* memory region read by the load
      Edge(6, 5, TRUE, "intra", 0),   \* store defines the memory region
      Edge(10, 2, FALSE, "intra", 0), \* gep
      Edge(5, 5, TRUE, "call", 2),    \* region passed into the recursive call
      Edge(11, 3, FALSE, "call", 1) >> \* another value f passes at call site 1

CandidateEdges == {CandidateEdgeSeq[i] : i \in DOMAIN CandidateEdgeSeq}

StoreSrcEdges == {Edge(StoreSrcNode[n], n, FALSE, "storesrc", 0) : n \in DOMAIN StoreSrcNode}

\* position of an edge in the iteration order of an edge set
EdgeRankTable ==
    [e \in CandidateEdges \cup StoreSrcEdges |->
        IF e \in StoreSrcEdges THEN 0
        ELSE CHOOSE i \in DOMAIN CandidateEdgeSeq : CandidateEdgeSeq[i] = e]

EdgeRank(e) == EdgeRankTable[e]

\* PAG ids that computePaths is called for, their definition node and
\* whether they pass the points-to-heap / unsafe-user test.
QueryIds == {1, 2, 3}
DefSVFGNode == [i \in QueryIds |-> CASE i = 1 -> 1 [] i = 2 -> 9 [] OTHER -> 3]
QueryQualifies == [i \in QueryIds |-> i # 2]

(***************************************************************************)
(* ContextCond (Util/DPItem.h)                                             *)
(***************************************************************************)
maximumCxtLen == 100

containCallStr(cxt, cs) == \E i \in 1..Len(cxt) : cxt[i] = cs

\* ContextCond::pushContext
pushContext(cond, cs) ==
    IF Len(cond.cxt) < maximumCxtLen
    THEN [cond EXCEPT !.cxt = Append(@, cs)]
    ELSE IF cond.cxt # <<>>
         THEN [cxt |-> Append(Tail(cond.cxt), cs), concrete |-> FALSE]
         ELSE cond

\* ContextCond::matchContext: the result and the context afterwards
matchContextOk(cond, cs) ==
    cond.cxt # <<>> /\ cond.cxt[Len(cond.cxt)] = cs

matchContextCond(cond, cs) ==
    IF cond.cxt # <<>> /\ cond.cxt[Len(cond.cxt)] = cs
    THEN [cond EXCEPT !.cxt = SubSeq(@, 1, Len(@) - 1)]
    ELSE cond

(***************************************************************************)
(* MPKRustIsolation                                                        *)
(***************************************************************************)
RecursiveCallSiteIds ==
    {cs \in DOMAIN CallSiteTable :
        inSameCallGraphSCC(CallSiteTable[cs].caller, CallSiteTable[cs].callee)}

\* variant that takes no call site for recursive
isEdgeInRecursionNever(cs) == FALSE
\* lines 174-179
isEdgeInRecursion(cs) == cs \in RecursiveCallSiteIds

RECURSIVE PopWhileRecursive(_)
PopWhileRecursive(cxt) ==
    IF cxt # <<>> /\ isEdgeInRecursion(cxt[Len(cxt)])
    THEN PopWhileRecursive(SubSeq(cxt, 1, Len(cxt) - 1))
    ELSE cxt

popRecursiveCallSites(cond) ==
    [cxt |-> PopWhileRecursive(cond.cxt), concrete |-> FALSE]

CallSiteIdTable ==
    [c \in 0..6, f \in CGFuncs |-> getCallSiteID(c, f)]

getCSIDAtCall(e) == CallSiteIdTable[e.cbn, NodeFun[e.dst]]
getCSIDAtRet(e) == CallSiteIdTable[e.cbn, NodeFun[e.src]]

\* variant that goes on whatever matchContext returned
handleBKConditionNoMatch(cond, e) ==
    IF e.ek = "call"
    THEN LET cs == getCSIDAtCall(e) IN
         IF cs = NoCS THEN [ok |-> TRUE, cond |-> cond]
         ELSE IF isEdgeInRecursion(cs)
              THEN [ok |-> TRUE, cond |-> popRecursiveCallSites(cond)]
              ELSE [ok |-> TRUE, cond |-> matchContextCond(cond, cs)]
    ELSE IF e.ek = "ret"
    THEN LET cs == getCSIDAtRet(e) IN
         IF cs = NoCS THEN [ok |-> TRUE, cond |-> cond]
         ELSE IF isEdgeInRecursion(cs)
              THEN [ok |-> TRUE, cond |-> popRecursiveCallSites(cond)]
              ELSE IF containCallStr(cond.cxt, cs)
                   THEN [ok |-> FALSE, cond |-> cond]
                   ELSE [ok |-> TRUE, cond |-> pushContext(cond, cs)]
    ELSE [ok |-> TRUE, cond |-> cond]

\* handleBKCondition: [ok, cond]
handleBKCondition(cond, e) ==
    IF e.ek = "call"
    THEN LET cs == getCSIDAtCall(e) IN
         IF cs = NoCS THEN [ok |-> TRUE, cond |-> cond]
         ELSE IF isEdgeInRecursion(cs)
              THEN [ok |-> TRUE, cond |-> popRecursiveCallSites(cond)]
              ELSE [ok |-> matchContextOk(cond, cs),
                    cond |-> matchContextCond(cond, cs)]
    ELSE IF e.ek = "ret"
    THEN LET cs == getCSIDAtRet(e) IN
         IF cs = NoCS THEN [ok |-> TRUE, cond |-> cond]
         ELSE IF isEdgeInRecursion(cs)
              THEN [ok |-> TRUE, cond |-> popRecursiveCallSites(cond)]
              ELSE IF containCallStr(cond.cxt, cs)
                   THEN [ok |-> FALSE, cond |-> cond]
                   ELSE [ok |-> TRUE, cond |-> pushContext(cond, cs)]
    ELSE [ok |-> TRUE, cond |-> cond]

\* identity of a CxtStmtDPItem: location, variable id and call string
ItemKey(dpm) == [loc |-> dpm.loc, id |-> dpm.id, cxt |-> dpm.cond.cxt]

isbkVisitedNever(dpm) == FALSE

isbkVisited(dpm) == ItemKey(dpm) \in backwardVisited

InEdges(n) == {e \in svfgEdges : e.dst = n}

\* the edges handleSingleStatement follows backward from a node
EdgesToFollow(n) ==
    CASE NodeKind[n] = "Direct" -> {e \in InEdges(n) : ~e.ind}
      [] NodeKind[n] \in {"Load", "MR"} -> {e \in InEdges(n) : e.ind}
      [] NodeKind[n] = "Store" ->
            IF StoreSrcIsPointer[n]
            THEN {e \in StoreSrcEdges : e.dst = n}
            ELSE {}
      [] OTHER -> {}

\* backwardPropDpm: the item the edge leads to
PropagatedDpm(dpm, e) ==
    [loc |-> e.src,
     id |-> IF e.ek = "storesrc" THEN StoreSrcId[e.dst] ELSE dpm.id,
     cond |-> handleBKCondition(dpm.cond, e).cond]

\* findPaths on a fresh item: mark it and run handleSingleStatement
EnterItem(dpm, stack) ==
    /\ backwardVisited' = backwardVisited \cup {ItemKey(dpm)}
    /\ handledLog' = Append(handledLog, ItemKey(dpm))
    /\ finalAddrDpmSet' =
          IF NodeKind[dpm.loc] = "AddrCall"
          THEN finalAddrDpmSet \cup {ItemKey(dpm)}
          ELSE finalAddrDpmSet
    /\ bkStack' = Append(stack, [dpm |-> dpm, todo |-> EdgesToFollow(dpm.loc)])

Top == bkStack[Len(bkStack)]
Rest == SubSeq(bkStack, 1, Len(bkStack) - 1)

\* the edge the iteration over the frame's edge set reaches next
NextEdge(todo) ==
    CHOOSE e \in todo : \A d \in todo :
        IF edgeOrderAsc THEN EdgeRank(e) <= EdgeRank(d)
                        ELSE EdgeRank(e) >= EdgeRank(d)

HasEdge == bkStack # <<>> /\ Top.todo # {}
CurEdge == NextEdge(Top.todo)
WithoutEdge(e) == Append(Rest, [Top EXCEPT !.todo = @ \ {e}])


(***************************************************************************)
(* Part II - the module being transformed (DDAPass.cpp)                    *)
(***************************************************************************)
MaxPaths == 3        \* discovered heap paths handed to findUnsafePointers

NullFn == "null"     \* no statically known callee
NullCB == 0          \* null CallBase pointer

Arg(t) == [ty |-> t, fn |-> NullFn]        \* an ordinary operand
FnArg(f) == [ty |-> "ptr", fn |-> f]       \* a function passed as operand

\* the functions of the module before the pass
\*   e  entry function;  w, g, h  user functions;  k  allocator with a body
\*   foo  a function that takes a function and allocates through k
\*   k2  an external declaration;  lib  a Rust library function
\*   old  a declaration left by an earlier run, named __mpk_unsafe...
OrigFuncs == {"e", "w", "g", "h", "k", "k2", "foo", "lib", "old"}

FuncParams ==
    [f \in OrigFuncs |->
        CASE f \in {"e", "w"} -> <<>>
          [] f \in {"g", "k", "k2"} -> <<"i64">>
          [] f \in {"h", "lib"} -> <<"ptr">>
          [] f = "foo" -> <<"ptr", "i64">>
          [] OTHER -> <<"i64", "i8">>]

FuncIsDeclaration == [f \in OrigFuncs |-> f \in {"k2", "old"}]

\* RustLibraryFunctions (filled by strapAndMarkRustStdLibraries)
RustLibraryFunctions == {"lib"}
isRustLibraryFunc(f) == f \in RustLibraryFunctions

\* the name redefineFunction gives the clone: "__mpk_unsafe" + name
CloneNameOf ==
    [f \in OrigFuncs |->
        CASE f = "e" -> "__mpk_unsafe_e"
          [] f = "w" -> "__mpk_unsafe_w"
          [] f = "g" -> "__mpk_unsafe_g"
          [] f = "h" -> "__mpk_unsafe_h"
          [] f = "k" -> "__mpk_unsafe_k"
          [] f = "k2" -> "__mpk_unsafe_k2"
          [] f = "foo" -> "__mpk_unsafe_foo"
          [] f = "lib" -> "__mpk_unsafe_lib"
          [] OTHER -> "__mpk_unsafe_old"]

CloneNames == {CloneNameOf[f] : f \in OrigFuncs}

\* getName().startswith("__mpk_unsafe")
startsWithMpkUnsafe(f) == f \in CloneNames \/ f = "old"

\* position of a function in the iteration order of MpkRedefinedMap, also
\* used to name the instruction that replaces a call of that function
FuncIndex ==
    [f \in OrigFuncs |->
        CASE f = "g" -> 1000
          [] f = "h" -> 10000
          [] f = "k" -> 100000
          [] f = "k2" -> 1000000
          [] f = "foo" -> 10000000
          [] f = "e" -> 100000000
          [] f = "w" -> 200000000
          [] f = "lib" -> 300000000
          [] OTHER -> 400000000]

\* the flag operand of an instruction: none, a constant, or
\* select((andv & src) != 0, val, 0) with src the clone's last parameter
\* ("param") or the function's copy of the register slot ("space")
NoFlag == [k |-> "none", andv |-> 0, val |-> 0, src |-> "none"]

CallI(p, c, a) ==
    [kind |-> "call", parent |-> p, callee |-> c, args |-> a,
     flag |-> NoFlag, origin |-> 0, via |-> NullFn]
OtherI(kd, p) ==
    [kind |-> kd, parent |-> p, callee |-> NullFn, args |-> <<>>,
     flag |-> NoFlag, origin |-> 0, via |-> NullFn]

\* the instructions of the module before the pass (after addDummyLoads)
OrigInstIds == 1..32

OrigInsts ==
    [i \in OrigInstIds |->
        CASE i = 1 -> CallI("e", "g", <<Arg("i64")>>)
          [] i = 2 -> CallI("g", "foo", <<FnArg("h"), Arg("i64")>>)
          [] i = 3 -> CallI("e", NullFn, <<FnArg("g")>>)    \* indirect call
          [] i = 4 -> CallI("e", "k", <<Arg("i64")>>)
          [] i \in {5, 6} -> CallI("g", "h", <<Arg("ptr")>>)
          [] i = 7 -> CallI("g", "k", <<Arg("i64")>>)
          [] i = 8 -> CallI("g", "h", <<Arg("ptr")>>)
          [] i \in {9, 10} -> OtherI("dummy", "h")          \* MPK-Dummy-Load
          [] i = 11 -> CallI("h", "k", <<Arg("i64")>>)
          [] i = 12 -> CallI("h", "k2", <<Arg("i64")>>)
          [] i = 13 -> CallI("h", "old", <<Arg("i64"), Arg("i8")>>)
          [] i = 14 -> OtherI("dummy", "k")
          [] i = 15 -> CallI("k", "k2", <<Arg("i64")>>)
          [] i = 16 -> CallI("lib", "h", <<Arg("ptr")>>)
          [] i = 17 -> OtherI("alloca", "g")
          [] i = 18 -> OtherI("alloca", "h")
          [] i = 19 -> OtherI("alloca", "e")
          [] i = 20 -> CallI("e", "w", <<>>)
          [] i = 30 -> CallI("g", "lib", <<Arg("ptr")>>)    \* library callee
          [] i = 31 -> CallI("foo", "k", <<Arg("i64")>>)
          [] i = 32 -> CallI("k", "k2", <<Arg("i64")>>)
          [] OTHER -> CallI("w", "g", <<Arg("i64")>>)]

OrigBody ==
    [f \in OrigFuncs |->
        CASE f = "e" -> <<19, 1, 3, 4, 20>>
          [] f = "w" -> <<21, 22, 23, 24, 25, 26, 27, 28, 29>>
          [] f = "g" -> <<17, 5, 6, 7, 8, 2, 30>>
          [] f = "h" -> <<18, 9, 10, 11, 12, 13>>
          [] f = "k" -> <<14, 32, 15>>
          [] f = "foo" -> <<31>>
          [] f = "lib" -> <<16>>
          [] OTHER -> <<>>]

CloneOffset == 100          \* id of the copy of instruction i in a clone
WriteOffset == 500          \* id of the flag write placed before call i
ReadOffset == 900           \* ids of the slot reads placed at function entry
ReadIdOf ==
    [f \in OrigFuncs |->
        ReadOffset + (CHOOSE n \in 1..9 :
            <<"e", "w", "g", "h", "k", "k2", "foo", "lib", "old">>[n] = f)]

\* a discovered heap path: the allocation call and the call string
\* (outermost call site first)
HeapPath(a, c) == [loc |-> a, calls |-> c]

PathPool ==
    { HeapPath(4, <<>>),        \* allocation used locally in e
      HeapPath(7, <<1>>),       \* e calls g, g calls the allocator k
      HeapPath(11, <<5>>),      \* g calls h, h calls k
      HeapPath(12, <<5>>),      \* same, second allocation call in h
      HeapPath(11, <<1, 5>>),   \* e calls g calls h calls k
      HeapPath(11, <<16>>),     \* rooted in a library function
      HeapPath(13, <<>>),       \* callee already named __mpk_unsafe
      HeapPath(11, <<3>>),      \* reached through the indirect call in e
      HeapPath(11, <<8>>),      \* another call of h in g
      HeapPath(7, <<3>>) }      \* g reached through the indirect call in e

\* nine call sites of the function w leading to unsafe allocations, and
\* the call of w in e
WidePaths ==
    << HeapPath(7, <<21>>), HeapPath(7, <<22>>), HeapPath(7, <<23>>),
       HeapPath(7, <<24>>), HeapPath(7, <<25>>), HeapPath(7, <<26>>),
       HeapPath(7, <<27>>), HeapPath(7, <<28>>), HeapPath(11, <<29, 5>>),
       HeapPath(7, <<20, 21>>) >>

\* three call sites of g leading to the allocation in h, and the call of g
GatedPaths ==
    << HeapPath(7, <<1>>), HeapPath(11, <<5>>), HeapPath(11, <<6>>),
       HeapPath(11, <<8>>) >>

RECURSIVE SeqsUpTo(_, _)
\* the sequences of at most n distinct elements of S
SeqsUpTo(S, n) ==
    IF n = 0 THEN {<<>>}
    ELSE LET R == SeqsUpTo(S, n - 1)
         IN R \cup {Append(q, x) : q \in {r \in R : Len(r) = n - 1}, x \in S}

NoRepeat(q) == \A i, j \in 1..Len(q) : q[i] = q[j] => i = j

\* the call of a library function in g as allocation call: reached from e
\* through call 1, and used locally in g
LibraryCalleePaths == << HeapPath(30, <<1>>) >>
LibraryCalleeLocalPaths == << HeapPath(30, <<>>) >>

\* g hands h to foo (call 2): foo allocates through k, and h is reached
\* through call 5 as well
HigherOrderPaths == << HeapPath(11, <<5>>), HeapPath(31, <<2>>) >>

\* k is the allocation function called at 4 and itself allocates through
\* k2 at its call 15
NestedAllocPaths == << HeapPath(4, <<>>), HeapPath(15, <<4>>) >>

PathOrders ==
    {q \in SeqsUpTo(PathPool, MaxPaths) : NoRepeat(q)}
        \cup {WidePaths, GatedPaths, LibraryCalleePaths, LibraryCalleeLocalPaths,
              HigherOrderPaths, NestedAllocPaths}

\* getFinalStackDpms: SVFG node and the value it stands for
UnsafeStackDpms == {[node |-> 51, val |-> 17], [node |-> 52, val |-> 5]}

\* instructions carrying the MPK-Unsafe mark
MpkUnsafeMarked == {5, 11}

\* PAG value nodes scanned by findUnsafePointers: the value, its users,
\* the definition SVFG node and the points-to set (stack objects by alloca)
PtrNodes ==
    [i \in 1..4 |->
        CASE i = 1 -> [top |-> TRUE, val |-> 11, users |-> {}, def |-> 61,
                       pts |-> {[stack |-> TRUE, ref |-> 18]}]
          [] i = 2 -> [top |-> TRUE, val |-> 7, users |-> {5}, def |-> 62,
                       pts |-> {[stack |-> TRUE, ref |-> 17],
                                [stack |-> FALSE, ref |-> 7]}]
          [] i = 3 -> [top |-> TRUE, val |-> 4, users |-> {1}, def |-> 63,
                       pts |-> {[stack |-> TRUE, ref |-> 19]}]
          [] OTHER -> [top |-> FALSE, val |-> 5, users |-> {}, def |-> 64,
                       pts |-> {[stack |-> TRUE, ref |-> 19]}]]


(***************************************************************************)
(* The registries of DDAPass.cpp (file-scope maps and sets) and the module *)
(* under transformation, held together in the record dda.                  *)
(***************************************************************************)
Range(q) == {q[n] : n \in DOMAIN q}

\* std::map::insert: keeps an existing entry
MapInsert(m, key, v) == IF key \in DOMAIN m THEN m ELSE m @@ (key :> v)
\* std::map::operator[] used as an assignment target
MapSet(m, key, v) == [x \in DOMAIN m \cup {key} |-> IF x = key THEN v ELSE m[x]]
\* std::map::operator[] used as a read: a missing key is default-inserted
MapTouch(m, key, d) == MapInsert(m, key, d)
MapAt(m, key, d) == IF key \in DOMAIN m THEN m[key] ELSE d

InitDda ==
    [ CallBaseToCalleeMap |-> <<>>,
      MpkRedefinedMap |-> <<>>,
      CallBase2NewCallBase |-> <<>>,
      CallBaseToUnsafeBitsArgs |-> <<>>,
      UnsafeCallBases |-> {},
      FunctionToUnsafeCallBasesMap |-> <<>>,
      CallBaseToUnsafeBitMap |-> <<>>,
      EntryReplaceCBNSet |-> {},
      IndirectCallsToVirtualFunctionMap |-> <<>>,
      UnsafePointers |-> {},
      IndirectFuncToUnsafeSpaceMap |-> {},
      IndirectCBMap |-> <<>>,
      IndirectlyDefined |-> {},
      funcs |-> [f \in OrigFuncs |->
                    [params |-> FuncParams[f], isDecl |-> FuncIsDeclaration[f],
                     body |-> OrigBody[f]]],
      insts |-> OrigInsts,
      heapMove |-> {},              \* instructions tagged MPK-HEAP-MOVE
      externMove |-> {},            \* allocas tagged MPK-Extern-Move
      mpkUnsafe |-> MpkUnsafeMarked, \* instructions tagged MPK-Unsafe
      cloneCount |-> <<>>,          \* calls of redefineFunction per function
      bitOrder |-> <<>>,            \* call sites in the order they received a bit
      oldCalls |-> <<>>,
      erased |-> <<>>,
      handledPaths |-> <<>>,        \* heap paths the loop has gone through
      possibleUnsafe |-> {},        \* SVFG nodes whose value got POSSIBLE-Unsafe
      undefined |-> {} ]            \* undefined operations executed so far

\* redefineFunction: the clone has the parameters of F and one more i8; a
\* declaration gets a body-less declaration, a definition a copy of the body
redefineFunction(s, F) ==
    LET NewF == CloneNameOf[F]
        old == s.funcs[F]
        olds == Range(old.body)
        copies == [j \in {i + CloneOffset : i \in olds} |->
                      [s.insts[j - CloneOffset] EXCEPT
                          !.parent = NewF, !.origin = j - CloneOffset]]
    IN  [s EXCEPT
          !.funcs = MapSet(@, NewF,
                       [params |-> Append(old.params, "i8"),
                        isDecl |-> old.isDecl,
                        body |-> [n \in 1..Len(old.body) |-> old.body[n] + CloneOffset]]),
          !.insts = copies @@ @,
          !.heapMove = @ \cup {i + CloneOffset : i \in olds \cap @},
          !.externMove = @ \cup {i + CloneOffset : i \in olds \cap @},
          !.cloneCount = MapSet(@, F, MapAt(@, F, 0) + 1)]

\* variant that clones without consulting MpkRedefinedMap first
NeedsCloneAlways(s, F) == TRUE
\* MpkRedefinedMap.find(calledFunc) == MpkRedefinedMap.end()
NeedsClone(s, F) == F \notin DOMAIN s.MpkRedefinedMap

\* lines 558-565 and 651-658: clone the allocator once and tag the call
CloneAllocCallee(s, a) ==
    LET calledFunc == s.insts[a].callee
    IN  IF NeedsClone(s, calledFunc)
        THEN [redefineFunction(s, calledFunc) EXCEPT
                !.MpkRedefinedMap = MapInsert(@, calledFunc, CloneNameOf[calledFunc]),
                !.heapMove = @ \cup {a}]
        ELSE s

\* variant that records nothing for the allocation call
AssignAllocBitNone(s, a) == s
\* lines 566-585 and 659-678: bit and bit-set of the allocation call; the
\* per-function set is looked up under getCalledFunction()
AssignAllocBit(s, a) ==
    LET allocCaller == s.insts[a].callee
        s1 == IF allocCaller \notin DOMAIN s.FunctionToUnsafeCallBasesMap
              THEN [s EXCEPT
                      !.CallBaseToUnsafeBitMap = MapInsert(@, a, 0),
                      !.FunctionToUnsafeCallBasesMap = MapInsert(@, allocCaller, {a}),
                      !.bitOrder = IF a \in DOMAIN s.CallBaseToUnsafeBitMap
                                   THEN @ ELSE Append(@, a)]
              ELSE IF a \notin DOMAIN s.CallBaseToUnsafeBitMap
              THEN [s EXCEPT
                      !.CallBaseToUnsafeBitMap = MapInsert(@, a, 0),
                      !.FunctionToUnsafeCallBasesMap[allocCaller] = @ \cup {a},
                      !.bitOrder = Append(@, a)]
              ELSE s
    IN  [s1 EXCEPT !.CallBaseToUnsafeBitsArgs = MapInsert(@, a, {1})]

\* line 589: the call site handled by an iteration of the walk; the code
\* reads it from cbn (the front of the call string), not from the popped id
LoopCallSite(front, popped) == front

\* lines 588-635: one iteration of the walk over the call string
WalkStep(s, prev, currCB, last) ==
    LET callee == s.insts[currCB].callee
        prevFn == s.insts[prev].parent
        s1 == IF callee # NullFn
              THEN [s EXCEPT !.CallBaseToCalleeMap = MapInsert(@, currCB, callee)]
              ELSE [s EXCEPT
                      !.IndirectCallsToVirtualFunctionMap =
                          MapSet(@, currCB, MapAt(@, currCB, {}) \cup {prevFn}),
                      !.IndirectlyDefined = @ \cup {prevFn}]
        s2 == [s1 EXCEPT !.heapMove = @ \cup {currCB},
                         !.UnsafeCallBases = @ \cup {currCB}]
        currParentFunc == s.insts[currCB].parent
        s3 == IF currParentFunc \notin DOMAIN s2.FunctionToUnsafeCallBasesMap
              THEN [s2 EXCEPT
                      !.FunctionToUnsafeCallBasesMap = MapInsert(@, currParentFunc, {currCB}),
                      !.CallBaseToUnsafeBitMap = MapInsert(@, currCB, 0),
                      !.bitOrder = IF currCB \in DOMAIN s2.CallBaseToUnsafeBitMap
                                   THEN @ ELSE Append(@, currCB)]
              ELSE IF currCB \notin DOMAIN s2.CallBaseToUnsafeBitMap
              THEN [s2 EXCEPT
                      !.CallBaseToUnsafeBitMap =
                          MapInsert(@, currCB,
                              Cardinality(s2.FunctionToUnsafeCallBasesMap[currParentFunc])),
                      !.FunctionToUnsafeCallBasesMap[currParentFunc] = @ \cup {currCB},
                      !.bitOrder = Append(@, currCB)]
              ELSE s2
        prevBit == MapAt(s3.CallBaseToUnsafeBitMap, prev, 0)
        s4 == [s3 EXCEPT
                 !.CallBaseToUnsafeBitMap = MapTouch(@, prev, 0),
                 !.CallBaseToUnsafeBitsArgs =
                     MapSet(@, currCB, MapAt(@, currCB, {}) \cup {prevBit})]
    IN  IF last THEN [s4 EXCEPT !.EntryReplaceCBNSet = @ \cup {currCB}] ELSE s4

RECURSIVE WalkCalls(_, _, _, _)
\* lines 586-636: while(!calls.empty()) pop the innermost remaining id
WalkCalls(s, prev, calls, front) ==
    IF calls = <<>> THEN s
    ELSE LET popped == calls[Len(calls)]
             rest == SubSeq(calls, 1, Len(calls) - 1)
             currCB == LoopCallSite(front, popped)
         IN  WalkCalls(WalkStep(s, prev, currCB, rest = <<>>), currCB, rest, front)

\* variant without the library test of line 547
HandleHeapPathBodyAnyRoot(s, dpm) ==
    LET a == dpm.loc
        calls == dpm.calls
    IN  IF startsWithMpkUnsafe(s.insts[a].callee) THEN s
        ELSE IF calls # <<>>
        THEN LET s1 == [s EXCEPT
                          !.UnsafeCallBases = @ \cup {a},
                          !.CallBaseToCalleeMap = MapInsert(@, a, s.insts[a].callee)]
                 s2 == AssignAllocBit(CloneAllocCallee(s1, a), a)
             IN  WalkCalls(s2, a, calls, calls[1])
        ELSE LET s1 == [s EXCEPT
                          !.CallBaseToCalleeMap = MapInsert(@, a, s.insts[a].callee),
                          !.EntryReplaceCBNSet = @ \cup {a},
                          !.UnsafeCallBases = @ \cup {a}]
             IN  AssignAllocBit(CloneAllocCallee(s1, a), a)
\* lines 536-681: the body of the loop over heapPaths for one path
HandleHeapPathBody(s, dpm) ==
    LET a == dpm.loc
        calls == dpm.calls
    IN  IF calls # <<>>
        THEN LET topCaller == s.insts[calls[1]].parent
             IN  IF isRustLibraryFunc(topCaller) THEN s
                 ELSE IF startsWithMpkUnsafe(s.insts[a].callee) THEN s
                 ELSE LET s1 == [s EXCEPT
                                   !.UnsafeCallBases = @ \cup {a},
                                   !.CallBaseToCalleeMap = MapInsert(@, a, s.insts[a].callee)]
                          s2 == AssignAllocBit(CloneAllocCallee(s1, a), a)
                      IN  WalkCalls(s2, a, calls, calls[1])
        ELSE IF startsWithMpkUnsafe(s.insts[a].callee) THEN s
             ELSE LET s1 == [s EXCEPT
                               !.CallBaseToCalleeMap = MapInsert(@, a, s.insts[a].callee),
                               !.EntryReplaceCBNSet = @ \cup {a},
                               !.UnsafeCallBases = @ \cup {a}]
                  IN  AssignAllocBit(CloneAllocCallee(s1, a), a)

\* variant of the loop body that leaves the entry-replace set as it was
HandleHeapPathNoEntry(s, dpm) ==
    [HandleHeapPathBody(s, dpm) EXCEPT !.handledPaths = Append(@, dpm),
                                       !.EntryReplaceCBNSet = s.EntryReplaceCBNSet]
HandleHeapPath(s, dpm) ==
    [HandleHeapPathBody(s, dpm) EXCEPT !.handledPaths = Append(@, dpm)]


\* lines 683-694: final stack items whose value is an alloca
TagUnsafeStacks(s) ==
    LET hits == {d \in UnsafeStackDpms : s.insts[d.val].kind = "alloca"}
    IN  [s EXCEPT !.externMove = @ \cup {d.val : d \in hits},
                  !.UnsafePointers = @ \cup {d.node : d \in hits}]

\* lines 697-738: value nodes defined or used by an MPK-Unsafe instruction
\* variant that looks at the users only, as isPtrUnsafe (lines 84-92) does
PtrIsUnsafeUsersOnly(s, i) == PtrNodes[i].users \cap s.mpkUnsafe # {}
PtrIsUnsafe(s, i) ==
    PtrNodes[i].val \in s.mpkUnsafe \/ PtrNodes[i].users \cap s.mpkUnsafe # {}

\* variant of the scan that replaces the recorded sets
TagUnsafeValuePtrsReplacing(s) ==
    LET hits == {i \in DOMAIN PtrNodes : PtrNodes[i].top /\ PtrIsUnsafe(s, i)}
        objs == UNION {{o.ref : o \in {x \in PtrNodes[i].pts : x.stack}} : i \in hits}
    IN  [s EXCEPT !.UnsafePointers = {PtrNodes[i].def : i \in hits},
                  !.externMove = objs]

TagUnsafeValuePtrs(s) ==
    LET hits == {i \in DOMAIN PtrNodes : PtrNodes[i].top /\ PtrIsUnsafe(s, i)}
        objs == UNION {{o.ref : o \in {x \in PtrNodes[i].pts : x.stack}} : i \in hits}
    IN  [s EXCEPT !.UnsafePointers = @ \cup {PtrNodes[i].def : i \in hits},
                  !.externMove = @ \cup objs]

\* the value-flow graph walked forward from the unsafe pointers
FwdKind ==
    [n \in {51, 52, 61, 62, 63, 64, 71, 72, 73, 74, 75, 76, 77} |->
        CASE n \in {71, 73, 75, 77} -> "Gep"
          [] n = 72 -> "Copy"
          [] n = 74 -> "Load"
          [] n = 76 -> "Store"
          [] OTHER -> "Addr"]
FwdEdges ==
    { [src |-> 61, dst |-> 71, direct |-> TRUE],
      [src |-> 62, dst |-> 72, direct |-> TRUE],
      [src |-> 72, dst |-> 73, direct |-> TRUE],
      [src |-> 63, dst |-> 75, direct |-> FALSE],
      [src |-> 51, dst |-> 74, direct |-> TRUE],
      [src |-> 74, dst |-> 76, direct |-> TRUE],
      [src |-> 76, dst |-> 77, direct |-> TRUE] }
FwdFollowed == {"Copy", "ActualParm", "FormalParm", "FormalRet", "ActualRet", "Gep", "Load"}

RECURSIVE FwdClosure(_)
FwdClosure(S) ==
    LET T == S \cup {e.dst : e \in {x \in FwdEdges :
                        x.src \in S /\ x.direct /\ FwdKind[x.dst] \in FwdFollowed}}
    IN  IF T = S THEN S ELSE FwdClosure(T)

\* lines 95-128
traverseUnsafePointerCopies(s) ==
    [s EXCEPT !.possibleUnsafe =
        @ \cup {n \in FwdClosure(s.UnsafePointers) : FwdKind[n] = "Gep"}]

\* lines 515-530: only the functions of the SVFModule are visited, which
\* LLVMModuleSet::initialize collected before any clone existed
removeDummyLoads(s) ==
    [s EXCEPT !.funcs =
        [f \in DOMAIN @ |->
            IF f \in OrigFuncs
            THEN [@[f] EXCEPT !.body = SelectSeq(@, LAMBDA i : s.insts[i].kind # "dummy")]
            ELSE @[f]]]


(***************************************************************************)
(* replaceUnsafeCalls                                                      *)
(***************************************************************************)
RECURSIVE SortedSeq(_)
\* the elements of a finite set of integers in ascending order
SortedSeq(S) ==
    IF S = {} THEN <<>>
    ELSE LET x == CHOOSE y \in S : \A z \in S : y <= z
         IN  <<x>> \o SortedSeq(S \ {x})

Reverse(q) == [n \in 1..Len(q) |-> q[Len(q) + 1 - n]]

IsLive(s, i) == i \in Range(s.funcs[s.insts[i].parent].body)

\* lines 221-230: clone the callee of every registered direct call
RECURSIVE CloneCallees(_, _)
CloneCallees(s, sites) ==
    IF sites = <<>> THEN s
    ELSE LET callBase == Head(sites)
             calledFunc == MapAt(s.CallBaseToCalleeMap, callBase, NullFn)
             s1 == IF callBase \in DOMAIN s.CallBaseToCalleeMap /\ NeedsClone(s, calledFunc)
                   THEN [redefineFunction(s, calledFunc) EXCEPT
                           !.MpkRedefinedMap = MapInsert(@, calledFunc, CloneNameOf[calledFunc])]
                   ELSE s
         IN  CloneCallees(s1, Tail(sites))

\* positions of oldFunc at which mapFunctionCallBases finds a call
MappedPositions(s, oldFunc) ==
    {n \in 1..Len(s.funcs[oldFunc].body) : s.insts[s.funcs[oldFunc].body[n]].kind = "call"}

\* positions at which the instruction of the clone is no call, so that
\* llvm::cast<CallBase>(newII) is applied to another kind of instruction
MismatchedPositions(s, oldFunc) ==
    {n \in MappedPositions(s, oldFunc) :
        s.insts[s.funcs[CloneNameOf[oldFunc]].body[n]].kind # "call"}

\* variant that records no correspondence
mapFunctionCallBasesNone(s, oldFunc) == s
\* lines 196-218: walk both bodies in lockstep, bounded by the old one
mapFunctionCallBases(s, oldFunc) ==
    IF s.funcs[oldFunc].isDecl THEN s
    ELSE LET oldB == s.funcs[oldFunc].body
             newB == s.funcs[CloneNameOf[oldFunc]].body
             P == MappedPositions(s, oldFunc)
             pairs == [k \in {newB[n] : n \in P} |->
                          oldB[CHOOSE n \in P : newB[n] = k]]
             ind == {n \in P : oldB[n] \in DOMAIN s.IndirectCallsToVirtualFunctionMap}
             ipairs == [k \in {oldB[n] : n \in ind} |->
                          newB[CHOOSE n \in ind : oldB[n] = k]]
         IN  [s EXCEPT !.CallBase2NewCallBase = @ @@ pairs,
                       !.IndirectCBMap = @ @@ ipairs]

RECURSIVE MapAllCallBases(_, _)
\* lines 232-234
MapAllCallBases(s, fs) ==
    IF fs = <<>> THEN s
    ELSE MapAllCallBases(mapFunctionCallBases(s, Head(fs)), Tail(fs))

\* lines 237-260: candidate targets with a body get, once, a read of the
\* register slot (r15 + 32) in front of their first instruction
IndirectCandidates(s) ==
    UNION {s.IndirectCallsToVirtualFunctionMap[c] :
              c \in DOMAIN s.IndirectCallsToVirtualFunctionMap}

SlotRead(f) == [OtherI("slotRead", f) EXCEPT !.flag.src = "r15+32"]

RECURSIVE InsertSlotReads(_, _)
InsertSlotReads(s, fs) ==
    IF fs = {} THEN s
    ELSE LET func == CHOOSE f \in fs : TRUE
             s1 == IF ~s.funcs[func].isDecl /\ func \notin s.IndirectFuncToUnsafeSpaceMap
                   THEN [s EXCEPT
                           !.insts = (ReadIdOf[func] :> SlotRead(func)) @@ @,
                           !.funcs[func].body = <<ReadIdOf[func]>> \o @,
                           !.IndirectFuncToUnsafeSpaceMap = @ \cup {func}]
                   ELSE s
         IN  InsertSlotReads(s1, fs \ {func})

\* the order in which the entries of MpkRedefinedMap (keyed by Function*)
\* are visited depends on where the functions were allocated
RedefinedOrder(s, asc) ==
    LET idx == SortedSeq({FuncIndex[f] : f \in DOMAIN s.MpkRedefinedMap})
        q == [n \in 1..Len(idx) |-> CHOOSE f \in OrigFuncs : FuncIndex[f] = idx[n]]
    IN  IF asc THEN q ELSE Reverse(q)

\* variant without the cloning loop of lines 221-230
organizeCallBlocksNoClone(s, asc) ==
    LET s2 == MapAllCallBases(s, RedefinedOrder(s, asc))
    IN  InsertSlotReads(s2, IndirectCandidates(s2))
\* lines 220-261
organizeCallBlocks(s, asc) ==
    LET s1 == CloneCallees(s, SortedSeq(s.UnsafeCallBases))
        s2 == MapAllCallBases(s1, RedefinedOrder(s1, asc))
    IN  InsertSlotReads(s2, IndirectCandidates(s2))

OrganizeMismatch(s) ==
    \E f \in DOMAIN s.MpkRedefinedMap :
        ~s.funcs[f].isDecl /\ MismatchedPositions(s, f) # {}


RECURSIVE OrOfBits(_)
\* lines 291-294: unsafeArgValue |= (1 << bit) over the bit-set
OrOfBits(B) ==
    IF B = {} THEN 0
    ELSE LET b == CHOOSE x \in B : TRUE IN 2^b + OrOfBits(B \ {b})

FlagWidth == 8
\* variant that keeps the value as wide as the int it was computed in
ConstantIntWide(v) == v
\* ConstantInt::get(i8Type, v): the value is cut to the eight low bits
ConstantInt8(v) == v % (2^FlagWidth)

\* outcomes of 1 << callBaseUnsafeBit when callBaseUnsafeBit is still -1,
\* as an i8 constant
UndefShiftValues == {0, 128}

\* lines 272-315 and 445-489: the flag operand computed for unsafeCall when
\* the instruction it is placed at lies in parentFunc
FlagFor(s, unsafeCall, parentFunc, ub) ==
    LET isEntry == unsafeCall \in s.EntryReplaceCBNSet
        isInIndirect == parentFunc \in s.IndirectFuncToUnsafeSpaceMap
        inClone == startsWithMpkUnsafe(parentFunc)
        origCB == MapAt(s.CallBase2NewCallBase, unsafeCall, NullCB)
        s1 == IF isEntry
              THEN [s EXCEPT !.CallBaseToUnsafeBitsArgs = MapTouch(@, unsafeCall, {})]
              ELSE IF inClone
              THEN [s EXCEPT !.CallBase2NewCallBase = MapTouch(@, unsafeCall, NullCB),
                             !.CallBaseToUnsafeBitsArgs = MapTouch(@, origCB, {}),
                             !.CallBaseToUnsafeBitMap = MapTouch(@, origCB, 0)]
              ELSE s
        UnsafeArgBits == IF isEntry THEN MapAt(s.CallBaseToUnsafeBitsArgs, unsafeCall, {})
                         ELSE IF inClone THEN MapAt(s.CallBaseToUnsafeBitsArgs, origCB, {})
                         ELSE {}
        callBaseUnsafeBit == IF ~isEntry /\ inClone
                             THEN MapAt(s.CallBaseToUnsafeBitMap, origCB, 0)
                             ELSE -1
        unsafeArgValue == OrOfBits(UnsafeArgBits)
        andValue == IF callBaseUnsafeBit = -1 THEN ub ELSE 2^callBaseUnsafeBit
        s2 == IF ~isEntry /\ callBaseUnsafeBit = -1 /\ (inClone \/ isInIndirect)
              THEN [s1 EXCEPT !.undefined = @ \cup {"shift by -1"}]
              ELSE s1
    IN  [ skip |-> ~isEntry /\ ~inClone /\ ~isInIndirect,
          s |-> s2,
          flag |-> IF isEntry
                   THEN [k |-> "const", andv |-> 0,
                         val |-> ConstantInt8(unsafeArgValue), src |-> "none"]
                   ELSE [k |-> "select", andv |-> ConstantInt8(andValue),
                         val |-> ConstantInt8(unsafeArgValue),
                         src |-> IF isInIndirect THEN "space" ELSE "param"] ]

RECURSIVE BitAnd(_, _)
BitAnd(a, b) ==
    IF a = 0 \/ b = 0 THEN 0
    ELSE (a % 2) * (b % 2) + 2 * BitAnd(a \div 2, b \div 2)

BitAndTable == [a \in 0..255 |-> [b \in 0..255 |-> BitAnd(a, b)]]
BitAnd8(a, b) ==
    IF a \in 0..255 /\ b \in 0..255 THEN BitAndTable[a][b] ELSE BitAnd(a, b)

\* lines 297 and 310-314: the byte the emitted operand evaluates to when the
\* source it tests (parameter or slot copy) holds the byte incoming
FlagValue(flag, incoming) ==
    IF flag.k = "const" THEN flag.val
    ELSE IF BitAnd8(flag.andv, incoming) # 0 THEN flag.val ELSE 0

\* Function::users() restricted to CallBase: the calls that name f as
\* callee or pass it as an operand
CallBaseUsers(s, f) ==
    {i \in DOMAIN s.insts :
        /\ s.insts[i].kind = "call"
        /\ IsLive(s, i)
        /\ \/ s.insts[i].callee = f
           \/ \E n \in DOMAIN s.insts[i].args : s.insts[i].args[n].fn = f}

\* variant that visits only the calls whose callee is f
CalleeUsers(s, f) ==
    {i \in CallBaseUsers(s, f) : s.insts[i].callee = f}

RewrittenUsers(s, f) == CallBaseUsers(s, f)

InsertBefore(q, at, x) ==
    LET n == CHOOSE m \in DOMAIN q : q[m] = at
    IN  SubSeq(q, 1, n - 1) \o <<x>> \o SubSeq(q, n, Len(q))

\* lines 317-344: the call that replaces unsafeCall as a use of origFunc
NewCallFor(s, unsafeCall, origFunc, flag) ==
    [kind |-> "call", parent |-> s.insts[unsafeCall].parent,
     callee |-> s.MpkRedefinedMap[origFunc],
     args |-> Append(s.insts[unsafeCall].args, Arg("i8")),
     flag |-> flag, origin |-> unsafeCall, via |-> origFunc]

NewIdFor(unsafeCall, origFunc) == unsafeCall + FuncIndex[origFunc]

\* the operand types of a call are the parameter types of its callee
SignatureOk(s, inst) ==
    [n \in DOMAIN inst.args |-> inst.args[n].ty] = s.funcs[inst.callee].params

\* variant without the continue of lines 283-285
RewriteUserNoSkip(s, unsafeCall, origFunc, ub) ==
    LET r == FlagFor(s, unsafeCall, s.insts[unsafeCall].parent, ub)
        parentFunc == s.insts[unsafeCall].parent
        NewCB == NewIdFor(unsafeCall, origFunc)
    IN  [r.s EXCEPT
           !.insts = (NewCB :> NewCallFor(s, unsafeCall, origFunc, r.flag)) @@ @,
           !.funcs[parentFunc].body = InsertBefore(@, unsafeCall, NewCB),
           !.oldCalls = Append(@, unsafeCall)]
\* lines 271-344: the body of the loop over the users of origFunc
RewriteUser(s, unsafeCall, origFunc, ub) ==
    LET r == FlagFor(s, unsafeCall, s.insts[unsafeCall].parent, ub)
        parentFunc == s.insts[unsafeCall].parent
        NewCB == NewIdFor(unsafeCall, origFunc)
    IN  IF r.skip THEN s
        ELSE [r.s EXCEPT
                !.insts = (NewCB :> NewCallFor(s, unsafeCall, origFunc, r.flag)) @@ @,
                !.funcs[parentFunc].body = InsertBefore(@, unsafeCall, NewCB),
                !.oldCalls = Append(@, unsafeCall)]

RECURSIVE RewriteUsers(_, _, _, _)
\* lines 270-346
RewriteUsers(s, users, origFunc, ub) ==
    IF users = <<>> THEN s
    ELSE RewriteUsers(RewriteUser(s, Head(users), origFunc, ub), Tail(users), origFunc, ub)

\* CallInst::Create checks the signature only in a build with assertions
BadSignatureUser(s, origFunc) ==
    \E u \in RewrittenUsers(s, origFunc) :
        /\ ~FlagFor(s, u, s.insts[u].parent, 0).skip
        /\ ~SignatureOk(s, NewCallFor(s, u, origFunc, NoFlag))


RemoveFrom(q, x) == SelectSeq(q, LAMBDA y : y # x)

\* lines 443-504: the body of the loop over the indirect call sites
IndirectWrite(s, unsafeCall, ub) ==
    LET isEntry == unsafeCall \in s.EntryReplaceCBNSet
        found == unsafeCall \in DOMAIN s.IndirectCBMap
    IN  IF ~isEntry /\ ~found
        THEN [s EXCEPT !.undefined = @ \cup {"IndirectCBMap.end() dereferenced"}]
        ELSE LET replacement == IF isEntry THEN unsafeCall ELSE s.IndirectCBMap[unsafeCall]
                 parentFunc == s.insts[replacement].parent
                 r == FlagFor(s, unsafeCall, parentFunc, ub)
                 w == WriteOffset + replacement
             IN  IF r.skip THEN s
                 ELSE [r.s EXCEPT
                         !.insts = (w :> [OtherI("slotWrite", parentFunc) EXCEPT
                                            !.flag = r.flag, !.origin = replacement]) @@ @,
                         !.funcs[parentFunc].body = InsertBefore(@, replacement, w)]

RECURSIVE IndirectWrites(_, _, _)
IndirectWrites(s, sites, ub) ==
    IF sites = <<>> THEN s
    ELSE IndirectWrites(IndirectWrite(s, Head(sites), ub), Tail(sites), ub)

RECURSIVE EraseCalls(_, _)
\* lines 506-510: erasing a call a second time touches freed memory
EraseCalls(s, q) ==
    IF q = <<>> THEN [s EXCEPT !.oldCalls = <<>>]
    ELSE LET CB == q[Len(q)]
             f == s.insts[CB].parent
             s1 == IF IsLive(s, CB)
                   THEN [s EXCEPT !.funcs[f].body = RemoveFrom(@, CB),
                                  !.erased = Append(@, CB)]
                   ELSE [s EXCEPT !.undefined = @ \cup {"erase of an erased call"},
                                  !.erased = Append(@, CB)]
         IN  EraseCalls(s1, SubSeq(q, 1, Len(q) - 1))

(***************************************************************************)
(* DDAPass::runOnModule, one action per step                               *)
(***************************************************************************)
InitPass ==
    /\ svfgEdges = CandidateEdges
    /\ edgeOrderAsc = TRUE
    /\ pendingQueries = {}
    /\ bkStack = <<>>
    /\ backwardVisited = {}
    /\ finalAddrDpmSet = {}
    /\ handledLog = <<>>
    /\ bkAborted = FALSE
    /\ pc = "heapPaths"
    /\ heapPaths \in PathOrders
    /\ dda = InitDda
    /\ funcQueue = <<>>
    /\ RestIdle

\* findUnsafePointers, one iteration of the loop over heapPaths
FindUnsafeHeapPath ==
    /\ pc = "heapPaths"
    /\ heapPaths # <<>>
    /\ dda' = HandleHeapPath(dda, Head(heapPaths))
    /\ heapPaths' = Tail(heapPaths)
    /\ UNCHANGED <<restVars, bkVars, pc, funcQueue>>

\* findUnsafePointers, the loop over the final stack items
FindUnsafeStacks ==
    /\ pc = "heapPaths"
    /\ heapPaths = <<>>
    /\ dda' = TagUnsafeStacks(dda)
    /\ pc' = "pointers"
    /\ UNCHANGED <<restVars, bkVars, heapPaths, funcQueue>>

\* findUnsafePointers, the loop over the valid pointers
FindUnsafeValuePtrs ==
    /\ pc = "pointers"
    /\ dda' = TagUnsafeValuePtrs(dda)
    /\ pc' = "copies"
    /\ UNCHANGED <<restVars, bkVars, heapPaths, funcQueue>>

TraverseCopies ==
    /\ pc = "copies"
    /\ dda' = traverseUnsafePointerCopies(dda)
    /\ pc' = "dummyLoads"
    /\ UNCHANGED <<restVars, bkVars, heapPaths, funcQueue>>

RemoveDummyLoads ==
    /\ pc = "dummyLoads"
    /\ dda' = removeDummyLoads(dda)
    /\ pc' = "organize"
    /\ UNCHANGED <<restVars, bkVars, heapPaths, funcQueue>>

\* replaceUnsafeCalls up to the first loop
OrganizeCallBlocks ==
    /\ pc = "organize"
    /\ \E asc \in BOOLEAN :
          /\ dda' = organizeCallBlocks(dda, asc)
          /\ funcQueue' = RedefinedOrder(dda', asc)
    /\ pc' = "rewrite"
    /\ UNCHANGED <<restVars, bkVars, heapPaths>>

\* llvm::cast on an instruction of another kind stops a build with assertions
OrganizeCastAbort ==
    /\ pc = "organize"
    /\ OrganizeMismatch(dda)
    /\ pc' = "aborted"
    /\ UNCHANGED <<restVars, bkVars, heapPaths, dda, funcQueue>>

\* one iteration of the loop over MpkRedefinedMap
RewriteUsesOf ==
    /\ pc = "rewrite"
    /\ funcQueue # <<>>
    /\ \E ub \in UndefShiftValues :
          dda' = RewriteUsers(dda, SortedSeq(RewrittenUsers(dda, Head(funcQueue))),
                              Head(funcQueue), ub)
    /\ funcQueue' = Tail(funcQueue)
    /\ UNCHANGED <<restVars, bkVars, heapPaths, pc>>

\* "Calling a function with bad signature!" in a build with assertions
RewriteSignatureAbort ==
    /\ pc = "rewrite"
    /\ funcQueue # <<>>
    /\ BadSignatureUser(dda, Head(funcQueue))
    /\ pc' = "aborted"
    /\ UNCHANGED <<restVars, bkVars, heapPaths, dda, funcQueue>>

\* the loop over IndirectCallsToVirtualFunctionMap
WriteIndirectFlags ==
    /\ pc = "rewrite"
    /\ funcQueue = <<>>
    /\ \E ub \in UndefShiftValues :
          dda' = IndirectWrites(dda,
                    SortedSeq(DOMAIN dda.IndirectCallsToVirtualFunctionMap), ub)
    /\ pc' = "erase"
    /\ UNCHANGED <<restVars, bkVars, heapPaths, funcQueue>>

EraseOldCalls ==
    /\ pc = "erase"
    /\ dda' = EraseCalls(dda, dda.oldCalls)
    /\ pc' = "done"
    /\ UNCHANGED <<restVars, bkVars, heapPaths, funcQueue>>

NextPass ==
    \/ FindUnsafeHeapPath
    \/ FindUnsafeStacks
    \/ FindUnsafeValuePtrs
    \/ TraverseCopies
    \/ RemoveDummyLoads
    \/ OrganizeCallBlocks
    \/ OrganizeCastAbort
    \/ RewriteUsesOf
    \/ RewriteSignatureAbort
    \/ WriteIndirectFlags
    \/ EraseOldCalls

SpecPass == InitPass /\ [][NextPass]_vars

InitBK ==
    /\ svfgEdges \in {E \in SUBSET CandidateEdges :
                         Cardinality(CandidateEdges \ E) <= MaxRemoved}
    /\ edgeOrderAsc \in BOOLEAN
    /\ pendingQueries = QueryIds
    /\ bkStack = <<>>
    /\ backwardVisited = {}
    /\ finalAddrDpmSet = {}
    /\ handledLog = <<>>
    /\ bkAborted = FALSE
    /\ pc = "analysis"
    /\ heapPaths = <<>>
    /\ dda = InitDda
    /\ funcQueue = <<>>
    /\ RestIdle

\* computePaths(id) for an id that qualifies: findPaths with an empty context
ComputePaths(i) ==
    /\ UNCHANGED <<passVars, restVars>>
    /\ ~bkAborted /\ bkStack = <<>> /\ i \in pendingQueries
    /\ QueryQualifies[i]
    /\ pendingQueries' = pendingQueries \ {i}
    /\ LET dpm == [loc |-> DefSVFGNode[i], id |-> i,
                   cond |-> [cxt |-> <<>>, concrete |-> TRUE]] IN
       IF isbkVisited(dpm)
       THEN UNCHANGED <<bkStack, backwardVisited, finalAddrDpmSet, handledLog>>
       ELSE EnterItem(dpm, bkStack)
    /\ UNCHANGED <<svfgEdges, edgeOrderAsc, bkAborted>>

\* computePaths(id) returning early
ComputePathsSkip(i) ==
    /\ UNCHANGED <<passVars, restVars>>
    /\ ~bkAborted /\ bkStack = <<>> /\ i \in pendingQueries
    /\ ~QueryQualifies[i]
    /\ pendingQueries' = pendingQueries \ {i}
    /\ UNCHANGED <<svfgEdges, edgeOrderAsc, bkStack, backwardVisited, finalAddrDpmSet,
                   handledLog, bkAborted>>

\* backwardPropDpm along one in-edge whose context matches, item not seen
PropagateNew ==
    /\ UNCHANGED <<passVars, restVars>>
    /\ ~bkAborted /\ HasEdge
    /\ NodeKind[Top.dpm.loc] # "Gep"
    /\ handleBKCondition(Top.dpm.cond, CurEdge).ok
    /\ ~isbkVisited(PropagatedDpm(Top.dpm, CurEdge))
    /\ Len(bkStack) < MaxDepth
    /\ EnterItem(PropagatedDpm(Top.dpm, CurEdge), WithoutEdge(CurEdge))
    /\ UNCHANGED <<svfgEdges, edgeOrderAsc, pendingQueries, bkAborted>>

\* backwardPropDpm reaching an item findPaths has seen already
PropagateVisited ==
    /\ UNCHANGED <<passVars, restVars>>
    /\ ~bkAborted /\ HasEdge
    /\ handleBKCondition(Top.dpm.cond, CurEdge).ok
    /\ isbkVisited(PropagatedDpm(Top.dpm, CurEdge))
    /\ bkStack' = WithoutEdge(CurEdge)
    /\ UNCHANGED <<svfgEdges, edgeOrderAsc, pendingQueries, backwardVisited, finalAddrDpmSet,
                   handledLog, bkAborted>>

\* backwardPropDpm giving up: handleBKCondition returned false
PropagateMismatch ==
    /\ UNCHANGED <<passVars, restVars>>
    /\ ~bkAborted /\ HasEdge
    /\ ~handleBKCondition(Top.dpm.cond, CurEdge).ok
    /\ bkStack' = WithoutEdge(CurEdge)
    /\ UNCHANGED <<svfgEdges, edgeOrderAsc, pendingQueries, backwardVisited, finalAddrDpmSet,
                   handledLog, bkAborted>>

\* handleSingleStatement has followed every edge: return to the caller
ReturnFromItem ==
    /\ UNCHANGED <<passVars, restVars>>
    /\ ~bkAborted /\ bkStack # <<>> /\ Top.todo = {}
    /\ NodeKind[Top.dpm.loc] # "Gep"
    /\ bkStack' = Rest
    /\ UNCHANGED <<svfgEdges, edgeOrderAsc, pendingQueries, backwardVisited, finalAddrDpmSet,
                   handledLog, bkAborted>>

\* a node kind without a handler: assert(false && "unknown node") aborts
UnknownNodeAbort ==
    /\ UNCHANGED <<passVars, restVars>>
    /\ ~bkAborted /\ bkStack # <<>>
    /\ NodeKind[Top.dpm.loc] = "Gep"
    /\ bkAborted' = TRUE
    /\ UNCHANGED <<svfgEdges, edgeOrderAsc, pendingQueries, bkStack, backwardVisited,
                   finalAddrDpmSet, handledLog>>

\* the same with assertions compiled out: the statement does nothing
UnknownNodeIgnored ==
    /\ UNCHANGED <<passVars, restVars>>
    /\ ~bkAborted /\ bkStack # <<>>
    /\ NodeKind[Top.dpm.loc] = "Gep"
    /\ bkStack' = Rest
    /\ UNCHANGED <<svfgEdges, edgeOrderAsc, pendingQueries, backwardVisited, finalAddrDpmSet,
                   handledLog, bkAborted>>

NextBK ==
    \/ \E i \in QueryIds : ComputePaths(i)
    \/ \E i \in QueryIds : ComputePathsSkip(i)
    \/ PropagateNew
    \/ PropagateVisited
    \/ PropagateMismatch
    \/ ReturnFromItem
    \/ UnknownNodeAbort
    \/ UnknownNodeIgnored

SpecBK == InitBK /\ [][NextBK]_vars

\* the traversal runs to completion on the single pass-manager thread
SpecBKFair == SpecBK /\ WF_vars(NextBK)

BKFinished == bkAborted \/ (bkStack = <<>> /\ pendingQueries = {})

\* C1: every (node, context) item is handled by handleSingleStatement at
\* most once, and the traversal of any finite graph terminates.
C1_Termination ==
    /\ [](\A i, j \in 1..Len(handledLog) : handledLog[i] = handledLog[j] => i = j)
    /\ <>[]BKFinished

\* a recursive cycle has been crossed and the traversal has finished
C1_Witness ==
    /\ BKFinished /\ ~bkAborted
    /\ Len(handledLog) >= 6
    /\ \E k \in backwardVisited : k.loc = 7
    /\ \E k \in finalAddrDpmSet : Len(k.cxt) = 2


(***************************************************************************)
(* The registries under their source names                                 *)
(***************************************************************************)
UnsafeCallBases == dda.UnsafeCallBases
MpkRedefinedMap == dda.MpkRedefinedMap
CallBaseToUnsafeBitMap == dda.CallBaseToUnsafeBitMap
CallBaseToUnsafeBitsArgs == dda.CallBaseToUnsafeBitsArgs
EntryReplaceCBNSet == dda.EntryReplaceCBNSet
IndirectCallsToVirtualFunctionMap == dda.IndirectCallsToVirtualFunctionMap
UnsafePointers == dda.UnsafePointers

EnclosingFunction(c) == dda.insts[c].parent

\* the sites that received a bit before the n-th one and lie in the same
\* enclosing function
EarlierSitesInFunction(n) ==
    {m \in 1..(n - 1) :
        EnclosingFunction(dda.bitOrder[m]) = EnclosingFunction(dda.bitOrder[n])}

\* C2: Bit uniqueness.  Whatever paths findUnsafePointers has processed, no
\* two distinct registered call sites of one enclosing function have the
\* same bit position, the first site registered for a function has bit 0
\* and each later site of that function has the next free bit.
C2_BitUniqueness ==
    /\ \A c1, c2 \in UnsafeCallBases :
          (c1 # c2 /\ EnclosingFunction(c1) = EnclosingFunction(c2))
              => CallBaseToUnsafeBitMap[c1] # CallBaseToUnsafeBitMap[c2]
    /\ \A n \in 1..Len(dda.bitOrder) :
          CallBaseToUnsafeBitMap[dda.bitOrder[n]] = Cardinality(EarlierSitesInFunction(n))

\* C3: Idempotent cloning.  Through findUnsafePointers and
\* organizeCallBlocks every original function is handed to redefineFunction
\* at most once, and the clone map holds exactly the one clone made for it.
C3_IdempotentCloning ==
    /\ DOMAIN dda.cloneCount = DOMAIN MpkRedefinedMap
    /\ \A f \in DOMAIN MpkRedefinedMap :
          /\ dda.cloneCount[f] = 1
          /\ MpkRedefinedMap[f] = CloneNameOf[f]
          /\ MpkRedefinedMap[f] \in DOMAIN dda.funcs

\* a function targeted by several registered call sites, after
\* organizeCallBlocks has run
C3_Witness ==
    /\ pc = "rewrite"
    /\ \E c1, c2, c3 \in UnsafeCallBases :
          /\ c1 # c2 /\ c2 # c3 /\ c1 # c3
          /\ dda.insts[c1].callee = "h"
          /\ dda.insts[c2].callee = "h"
          /\ dda.insts[c3].callee = "k"
    /\ \E c \in UnsafeCallBases : dda.insts[c].callee = "k" /\ c # 11
    /\ dda.cloneCount["h"] = 1
    /\ dda.cloneCount["k"] = 1


\* the calls built by replaceUnsafeCalls
NewCalls == {i \in DOMAIN dda.insts : dda.insts[i].via # NullFn}

\* C4: Signature contract.  Every clone has the parameters of its original
\* followed by exactly one 8-bit parameter, the clone of a declaration is a
\* declaration without body, and every call built by replaceUnsafeCalls from
\* a use of an original is a well-typed call of the clone of the function
\* the replaced call called, with the arguments of the replaced call in order
\* followed by exactly one flag byte.
C4_SignatureContract ==
    /\ \A f \in DOMAIN MpkRedefinedMap :
          /\ dda.funcs[MpkRedefinedMap[f]].params = Append(dda.funcs[f].params, "i8")
          /\ dda.funcs[f].isDecl =>
                /\ dda.funcs[MpkRedefinedMap[f]].isDecl
                /\ dda.funcs[MpkRedefinedMap[f]].body = <<>>
    /\ \A n \in NewCalls :
          LET old == dda.insts[dda.insts[n].origin]
          IN  /\ old.callee \in DOMAIN MpkRedefinedMap
              /\ dda.insts[n].callee = MpkRedefinedMap[old.callee]
              /\ dda.insts[n].args = Append(old.args, Arg("i8"))
              /\ dda.insts[n].flag.k # "none"
              /\ SignatureOk(dda, dda.insts[n])


\* incoming flag bytes: none, each single bit, and all bits; the emitted
\* operand tests (andv & incoming) != 0, so its value on every byte is
\* fixed by its values on these
Bytes == {0, 255} \cup {2^b : b \in 0..7}
BitIsSet(v, b) == (v \div (2^b)) % 2 = 1

\* the calls built for a call that really called the cloned function
ReplacedCalleeCalls ==
    {n \in NewCalls : dda.insts[dda.insts[n].origin].callee = dda.insts[n].via}

\* C5: Entry-replace flag.  The call built for an entry-replace site whose
\* registered unsafe-bit set is S passes as last argument the constant equal
\* to the bitwise OR of (1 << b) over all b in S; for S = {0} it passes 1.
C5_EntryReplaceFlag ==
    \A n \in ReplacedCalleeCalls :
        LET u == dda.insts[n].origin
        IN  u \in EntryReplaceCBNSet =>
              /\ dda.insts[n].flag.k = "const"
              /\ dda.insts[n].flag.val = OrOfBits(CallBaseToUnsafeBitsArgs[u])
              /\ CallBaseToUnsafeBitsArgs[u] = {0} => dda.insts[n].flag.val = 1

\* the calls built inside clones for the copy of a registered call site
InteriorCalls ==
    {n \in ReplacedCalleeCalls :
        /\ startsWithMpkUnsafe(dda.insts[n].parent)
        /\ dda.insts[n].origin \notin EntryReplaceCBNSet
        /\ dda.insts[dda.insts[n].origin].origin \in UnsafeCallBases}

\* C6: Interior flag.  The call built for a non-entry call inside a clone,
\* whose original call site has gating bit g and bitmask M (the OR of its
\* registered bits), passes M when bit g of the clone's last parameter is
\* set and 0 otherwise; with g = 2 and M = 1 it passes 1 or 0.
C6_InteriorFlag ==
    \A n \in InteriorCalls :
        LET o == dda.insts[dda.insts[n].origin].origin
            g == CallBaseToUnsafeBitMap[o]
            M == OrOfBits(CallBaseToUnsafeBitsArgs[o])
        IN  /\ dda.insts[n].flag.src = "param"
            /\ \A incoming \in Bytes :
                  FlagValue(dda.insts[n].flag, incoming) =
                      IF BitIsSet(incoming, g) THEN M ELSE 0

\* the copy in the clone of g of the third registered call of h
C6_Witness ==
    \E n \in InteriorCalls :
        LET o == dda.insts[dda.insts[n].origin].origin
        IN  /\ CallBaseToUnsafeBitMap[o] = 2
            /\ OrOfBits(CallBaseToUnsafeBitsArgs[o]) = 1
            /\ FlagValue(dda.insts[n].flag, 4) = 1
            /\ FlagValue(dda.insts[n].flag, 3) = 0


PathHandled(p) == \E n \in DOMAIN dda.handledPaths : dda.handledPaths[n] = p

ScenarioCPath == HeapPath(11, <<5>>)    \* g calls h (5), h calls k (11)

\* the call built for g's call of h as a use of h
ScenarioCNewCall == NewIdFor(5, "h")

ScenarioCRest ==
    /\ "h" \in DOMAIN MpkRedefinedMap
    /\ MpkRedefinedMap["h"] \in DOMAIN dda.funcs
    /\ CallBaseToUnsafeBitMap[11] = 0
    /\ 5 \in EntryReplaceCBNSet
    /\ ScenarioCNewCall \in DOMAIN dda.insts
    /\ dda.insts[ScenarioCNewCall].callee = CloneNameOf["h"]
    /\ dda.insts[ScenarioCNewCall].flag.k = "const"

\* C7 as stated: Scenario C.  When the allocation call in h has been
\* discovered with the call string [g's call of h], then after the pass
\* clones of g and of h exist, h's call of k has bit position 0, and g's
\* call of h is the entry-replace site and is rewritten with a constant flag.
C7_ScenarioC_AsStated ==
    (pc = "done" /\ PathHandled(ScenarioCPath)) =>
        /\ "g" \in DOMAIN MpkRedefinedMap
        /\ ScenarioCRest

\* C7 (amended): Scenario C.  Under the same conditions clones of h and of
\* the allocator k exist (the callees of the registered call sites), h's
\* call of k has bit position 0, and g's call of h is the entry-replace
\* site and is rewritten with a constant flag.
C7_ScenarioC ==
    (pc = "done" /\ PathHandled(ScenarioCPath)) =>
        /\ "k" \in DOMAIN MpkRedefinedMap
        /\ MpkRedefinedMap["k"] \in DOMAIN dda.funcs
        /\ ScenarioCRest

\* the pass has run on exactly the path of Scenario C; g has no clone
C7_Witness ==
    /\ pc = "done"
    /\ dda.handledPaths = <<ScenarioCPath>>
    /\ DOMAIN MpkRedefinedMap = {"h", "k"}
    /\ dda.insts[ScenarioCNewCall].flag.val = 1
    /\ IsLive(dda, ScenarioCNewCall)
    /\ ~IsLive(dda, 5)

ImmediatelyBefore(f, x, y) ==
    \E n \in 1..(Len(dda.funcs[f].body) - 1) :
        dda.funcs[f].body[n] = x /\ dda.funcs[f].body[n + 1] = y

SlotReadsOf(f) ==
    {n \in DOMAIN dda.funcs[f].body : dda.insts[dda.funcs[f].body[n]].kind = "slotRead"}

\* C9: Scenario D.  After the pass every call site of the
\* indirect-resolution map is still in place with its arguments unchanged
\* and has not been replaced by a call of a clone; a write of its flag to the
\* slot at r15 + 32 stands immediately before it; and every candidate target
\* with a body reads that slot exactly once, at its entry.
C9_ScenarioD ==
    pc = "done" =>
        \A c \in DOMAIN IndirectCallsToVirtualFunctionMap :
            /\ IsLive(dda, c)
            /\ dda.insts[c] = OrigInsts[c]
            /\ ~\E n \in NewCalls : dda.insts[n].origin = c
            /\ (WriteOffset + c) \in DOMAIN dda.insts
            /\ ImmediatelyBefore(EnclosingFunction(c), WriteOffset + c, c)
            /\ \A f \in IndirectCallsToVirtualFunctionMap[c] :
                  ~dda.funcs[f].isDecl => SlotReadsOf(f) = {1}

\* C10: Monotonicity.  No step of the pass removes an MPK-Extern-Move tag
\* from a stack allocation or a node from the unsafe-pointer set, and a
\* tagged allocation stays in its function.
C10_Monotonicity ==
    [][ /\ dda.externMove \subseteq dda'.externMove
        /\ dda.UnsafePointers \subseteq dda'.UnsafePointers
        /\ \A i \in dda.externMove : IsLive(dda, i) => IsLive(dda', i) ]_vars

\* both classification steps have marked something and the whole pass,
\* rewriting included, has run after them
C10_Witness ==
    /\ pc = "done"
    /\ {17, 18} \subseteq dda.externMove
    /\ {51, 61, 62} \subseteq UnsafePointers
    /\ Len(dda.erased) > 0
    /\ \E i \in dda.externMove : i > CloneOffset

(***************************************************************************)
(* Part III: the library classifier isRustLibraryFunc(string)              *)
(* Names are sequences of characters.                                      *)
(***************************************************************************)
\* the characters isalpha accepts in the "C" locale
Letters ==
    {"a", "b", "c", "d", "e", "f", "g", "h", "i", "j", "k", "l", "m", "n", "o", "p", "q", "r", "s", "t", "u", "v", "w", "x", "y", "z",
     "A", "B", "C", "D", "E", "F", "G", "H", "I", "J", "K", "L", "M", "N", "O", "P", "Q", "R", "S", "T", "U", "V", "W", "X", "Y", "Z"}

isalpha(c) == c \in Letters

\* the allow-list, in the order of the array
RUST_LIBRARIES ==
    << <<"a", "l", "l", "o", "c">>,
       <<"c", "o", "r", "e">>,
       <<"s", "t", "d">>,
       <<"b", "a", "c", "k", "t", "r", "a", "c", "e">>,
       <<"s", "t", "d", "a", "r", "c", "h">>,
       <<"t", "e", "r", "m">>,
       <<"r", "t", "s", "t", "a", "r", "t", "u", "p">>,
       <<"u", "n", "w", "i", "n", "d">>,
       <<"l", "i", "b", "c">>,
       <<"c", "f", "g", "_", "i", "f">>,
       <<"g", "e", "t", "r", "a", "n", "d", "o", "m">>,
       <<"l", "i", "b", "m">>,
       <<"n", "u", "m", "_", "t", "r", "a", "i", "t", "s">>,
       <<"p", "p", "v", "_", "l", "i", "t", "e", "8", "6">>,
       <<"p", "r", "o", "c", "_", "m", "a", "c", "r", "o", "2">>,
       <<"p", "r", "o", "c", "_", "m", "a", "c", "r", "o">>,
       <<"q", "u", "o", "t", "e">>,
       <<"r", "a", "n", "d">>,
       <<"r", "a", "n", "d", "_", "c", "h", "a", "c", "h", "a">>,
       <<"r", "a", "n", "d", "_", "c", "o", "r", "e">>,
       <<"r", "a", "n", "d", "_", "d", "i", "s", "t", "r">>,
       <<"r", "a", "n", "d", "_", "p", "c", "g">>,
       <<"s", "e", "r", "d", "e">>,
       <<"s", "e", "r", "d", "e", "_", "d", "e", "r", "i", "v", "e">>,
       <<"s", "y", "n">>,
       <<"u", "n", "i", "c", "o", "d", "e", "_", "x", "i", "d">>,
       <<"c", "l", "a", "p">> >>

ColonColon == <<":", ":">>
AsPrefix == <<" ", "a", "s", " ">>

\* leading characters a name can arrive with
NamePrefixes ==
    { <<>>,
      <<"_">>,
      <<"<">>,
      <<"_", "<">>,
      <<" ">>,
      <<"1">>,
      <<"_", "_">>,
      <<"&">> }

NameBodies ==
    { <<"a", "l", "l", "o", "c", ":", ":", "v", "e", "c", ":", ":", "V", "e", "c", ":", ":", "p", "u", "s", "h">>,
      <<"m", "y", "c", "r", "a", "t", "e", ":", ":", "f", "o", "o">>,
      <<>>,
      <<"c", "o", "r", "e", ":", ":", "p", "t", "r", ":", ":", "d", "r", "o", "p", "_", "i", "n", "_", "p", "l", "a", "c", "e">>,
      <<"s", "t", "d">>,
      <<"s", "t", "d", ":">>,
      <<"s", "t", "d", ":", ":">>,
      <<"s", "t", "d", "x", ":", ":", "f">>,
      <<"x", "s", "t", "d", ":", ":", "f">>,
      <<"T", " ", "a", "s", " ", "c", "o", "r", "e", ":", ":", "f", "m", "t", ":", ":", "D", "e", "b", "u", "g", ">", ":", ":", "f", "m", "t">>,
      <<"m", "y", "c", "r", "a", "t", "e", ":", ":", "T", " ", "a", "s", " ", "m", "y", "c", "o", "r", "e", ":", ":", "A">>,
      <<"a", "s", " ", "c", "o", "r", "e", ":", ":", "x">>,
      <<"C", "o", "r", "e", ":", ":", "x">>,
      <<"r", "a", "n", "d", "_", "c", "o", "r", "e", ":", ":", "R", "n", "g", "C", "o", "r", "e">>,
      <<"m", "y", "c", "r", "a", "t", "e", ":", ":", "a", "l", "l", "o", "c", ":", ":", "f">>,
      <<"x", " ", "a", "s", " ", "s", "t", "d", ":", ":", "i", "o", ":", ":", "W", "r", "i", "t", "e">>,
      <<"c", "l", "a", "p", ":", ":", "A", "p", "p">>,
      <<"p", "r", "o", "c", "_", "m", "a", "c", "r", "o", "2", ":", ":", "S", "p", "a", "n">>,
      <<"c", "f", "g", "_", "i", "f", ":", ":", "x">>,
      <<"a">> }

NameInputs == {p \o b : p \in NamePrefixes, b \in NameBodies}

\* c_str(): the character at a position, the terminator after the last one
NUL == "NUL"
CharAt(s, i) == IF i <= Len(s) THEN s[i] ELSE NUL

RECURSIVE strncmpFrom(_, _, _, _)
\* strncmp(a, b, n) == 0, comparing from position i on
strncmpFrom(a, b, i, n) ==
    IF i > n THEN TRUE
    ELSE IF CharAt(a, i) # CharAt(b, i) THEN FALSE
    ELSE IF CharAt(a, i) = NUL THEN TRUE
    ELSE strncmpFrom(a, b, i + 1, n)

strncmpIsZero(a, b, n) == strncmpFrom(a, b, 1, n)

npos == -1
\* std::string::find(p, 0): the first position p occurs at (from 0), or npos
find(s, p) ==
    LET hits == {k \in 0..(Len(s) - Len(p)) : SubSeq(s, k + 1, k + Len(p)) = p}
    IN  IF hits = {} THEN npos ELSE CHOOSE k \in hits : \A j \in hits : k <= j

\* variant that leaves the name as it arrived
StripLeadingNone(s) == s
RECURSIVE StripLeading(_)
\* while(FuncName.length() > 1 && !isalpha(FuncName[0])) FuncName = FuncName.substr(1)
StripLeading(s) ==
    IF Len(s) > 1 /\ ~isalpha(s[1]) THEN StripLeading(Tail(s)) ELSE s

RECURSIVE MatchesFrom(_, _)
\* the loop over RUST_LIBRARIES from entry n on
MatchesFrom(name, n) ==
    IF n > Len(RUST_LIBRARIES) THEN FALSE
    ELSE LET compare == RUST_LIBRARIES[n] \o ColonColon
         IN  IF strncmpIsZero(compare, name, Len(compare)) THEN TRUE
             ELSE IF find(name, AsPrefix \o compare) # npos THEN TRUE
             ELSE MatchesFrom(name, n + 1)

\* isRustLibraryFunc(string FuncName)
isRustLibraryFuncName(name) ==
    IF name = <<>> \/ Len(name) = 0 THEN FALSE
    ELSE MatchesFrom(StripLeading(name), 1)

\* the backward propagator and the pass are not running
BkIdle ==
    /\ svfgEdges = CandidateEdges
    /\ edgeOrderAsc = TRUE
    /\ pendingQueries = {}
    /\ bkStack = <<>>
    /\ backwardVisited = {}
    /\ finalAddrDpmSet = {}
    /\ handledLog = <<>>
    /\ bkAborted = FALSE

PassIdle ==
    /\ pc = "idle"
    /\ heapPaths = <<>>
    /\ dda = InitDda
    /\ funcQueue = <<>>

InitLib ==
    /\ BkIdle
    /\ PassIdle
    /\ FuncName \in NameInputs
    /\ libAnswer = <<>>
    /\ mem = <<>>
    /\ thr = <<>>

\* one call of isRustLibraryFunc(FuncName)
ClassifyName ==
    /\ libAnswer = <<>>
    /\ libAnswer' = <<isRustLibraryFuncName(FuncName)>>
    /\ UNCHANGED <<FuncName, bkVars, passVars, rtVars>>

NextLib == ClassifyName

SpecLib == InitLib /\ [][NextLib]_vars

\* the name without its leading non-alphabetic characters
RemoveLeadingNonAlpha(s) ==
    LET firstAlpha == {n \in 1..Len(s) : s[n] \in Letters}
    IN  IF firstAlpha = {} THEN <<>>
        ELSE SubSeq(s, CHOOSE n \in firstAlpha : \A m \in firstAlpha : n <= m, Len(s))

IsPrefixOf(p, s) == Len(p) <= Len(s) /\ \A i \in 1..Len(p) : s[i] = p[i]

OccursIn(p, s) ==
    \E k \in 0..(Len(s) - Len(p)) : \A i \in 1..Len(p) : s[k + i] = p[i]

AllowList == {RUST_LIBRARIES[n] : n \in 1..Len(RUST_LIBRARIES)}

ClaimedLibrary(name) ==
    /\ name # <<>>
    /\ \E lib \in AllowList :
          \/ IsPrefixOf(lib \o <<":", ":">>, RemoveLeadingNonAlpha(name))
          \/ OccursIn(<<" ", "a", "s", " ">> \o lib \o <<":", ":">>,
                      RemoveLeadingNonAlpha(name))

AllocVecPush ==
    <<"a", "l", "l", "o", "c", ":", ":", "v", "e", "c", ":", ":", "V", "e", "c", ":", ":", "p", "u", "s", "h">>
MycrateFoo ==
    <<"m", "y", "c", "r", "a", "t", "e", ":", ":", "f", "o", "o">>
TraitImplName ==
    <<"_", "<", "T", " ", "a", "s", " ", "c", "o", "r", "e", ":", ":", "f", "m", "t", ":", ":", "D", "e", "b", "u", "g", ">", ":", ":", "f", "m", "t">>

\* C11: Library classifier.  isRustLibraryFunc(name) returns false for the
\* empty string; for any other name it returns true exactly when the name
\* without its leading non-alphabetic characters starts with "<lib>::" or
\* contains " as <lib>::" for a <lib> of the allow-list; it returns true for
\* "alloc::vec::Vec::push" and false for "mycrate::foo".
C11_LibraryClassifier ==
    libAnswer # <<>> =>
        /\ libAnswer[1] = ClaimedLibrary(FuncName)
        /\ FuncName = <<>> => libAnswer[1] = FALSE
        /\ FuncName = AllocVecPush => libAnswer[1] = TRUE
        /\ FuncName = MycrateFoo => libAnswer[1] = FALSE

\* a trait-impl path behind two leading non-alphabetic characters
C11_Witness ==
    /\ FuncName = TraitImplName
    /\ libAnswer = <<TRUE>>

\* the instructions carrying MPK-Dummy-Load that a function of the module holds
DummyLoadsIn(f) ==
    {i \in Range(dda.funcs[f].body) : dda.insts[i].kind = "dummy"}

\* C12: Dummy-load cleanup.  When runOnModule writes the module out, no
\* function of the module, clones included, holds an instruction carrying
\* the dummy-load tag; and until findUnsafePointers has finished, the
\* dummy loads of the original functions are still in place.
C12_DummyLoadCleanup ==
    /\ pc = "done" => \A f \in DOMAIN dda.funcs : DummyLoadsIn(f) = {}
    /\ pc \in {"heapPaths", "pointers"} =>
          \A f \in OrigFuncs : dda.funcs[f].body = OrigBody[f]

(***************************************************************************)
(* Part IV: the runtime's per-thread domain record (mpk-library/threads.c) *)
(***************************************************************************)
MaxThreads == 2
MaxAddr == 5

MainThread == 0
Threads == 0..MaxThreads
NULL == 0
Addrs == 1..MaxAddr
SAFE_DOMAIN_VALUE == 0
EXTERN_DOMAIN_VALUE == 1
DomainValues == {SAFE_DOMAIN_VALUE, EXTERN_DOMAIN_VALUE}
FlagBytes == {0, 1}

\* a block of the heap: whether it is allocated, and the words the runtime
\* and the generated code use in it (domain_t.domain at +8, the slot the
\* generated code reaches as r15 + 32, thread_data_t.temp_domain)
Block(l, d, f, t) == [live |-> l, domain |-> d, slot32 |-> f, temp |-> t]

NoThread ==
    [pc |-> "unborn", tsd |-> NULL, r15 |-> NULL, args |-> NULL,
     data |-> [domain |-> 0, temp |-> NULL], rec |-> NULL, createdWith |-> 0]

\* variant of the allocator that may hand out a block that is in use
mallocAny(m) == Addrs
\* malloc: the address of a block that is not in use; of the free blocks the
\* allocator hands out the lowest (a block freed before is used again) or
\* the highest (a block never used before)
malloc(m) ==
    LET unused == {a \in Addrs : ~m[a].live}
    IN  {a \in unused : (\A b \in unused : a <= b) \/ (\A b \in unused : a >= b)}

\* the contents of a block that is not in use are of no account
free(m, a) == [m EXCEPT ![a] = Block(FALSE, 0, 0, NULL)]

\* pthread_getspecific(DOMAIN_KEY)->domain
get_domain(t) == mem[thr[t].tsd].domain

\* after mpk_initialization and __check_r15 on the first thread
InitRt ==
    /\ mem = [a \in Addrs |->
                IF a = 1 THEN Block(TRUE, SAFE_DOMAIN_VALUE, 0, NULL)
                ELSE Block(FALSE, 0, 0, NULL)]
    /\ thr = [t \in Threads |->
                IF t = MainThread
                THEN [NoThread EXCEPT !.pc = "user", !.tsd = 1, !.r15 = 1, !.rec = 1]
                ELSE NoThread]

InitThreads ==
    /\ BkIdle
    /\ PassIdle
    /\ FuncName = <<>>
    /\ libAnswer = <<>>
    /\ InitRt

\* pthread_create: thread_data and temp_domain carry the caller's domain
PthreadCreate(t, c) ==
    /\ thr[t].pc = "user"
    /\ thr[c].pc = "unborn"
    /\ \E a1 \in malloc(mem) :
          LET d == get_domain(t)
              m1 == [mem EXCEPT ![a1] = Block(TRUE, d, @.slot32, NULL)]
          IN  \E a2 \in malloc(m1) :
                /\ mem' = [m1 EXCEPT ![a2] = Block(TRUE, d, @.slot32, @.temp),
                                     ![a1].temp = a2]
                /\ thr' = [thr EXCEPT ![c] = [NoThread EXCEPT
                              !.pc = "hook67", !.args = a1, !.createdWith = d]]
    /\ UNCHANGED <<bkVars, passVars, libVars>>

\* thread_hook, lines 67-70: copy the arguments, install temp_domain
HookInstallTemp(c) ==
    /\ thr[c].pc = "hook67"
    /\ thr' = [thr EXCEPT ![c].data = [domain |-> mem[thr[c].args].domain,
                                       temp |-> mem[thr[c].args].temp],
                          ![c].tsd = mem[thr[c].args].temp,
                          ![c].pc = "hook73"]
    /\ UNCHANGED <<mem, bkVars, passVars, libVars>>

\* thread_hook, lines 72-85: allocate the record, free temp_domain and args;
\* the words of the new block hold whatever the allocator left in them
HookAllocate(c) ==
    /\ thr[c].pc = "hook73"
    /\ \E a \in malloc(mem), d \in DomainValues, f \in FlagBytes :
          /\ mem' = free(free([mem EXCEPT ![a] = Block(TRUE, d, f, NULL)],
                              thr[c].data.temp),
                         thr[c].args)
          /\ thr' = [thr EXCEPT ![c].rec = a, ![c].pc = "hook86"]
    /\ UNCHANGED <<bkVars, passVars, libVars>>

\* thread_hook, lines 86-91: fill the record and install it
HookInstallRecord(c) ==
    /\ thr[c].pc = "hook86"
    /\ mem' = [mem EXCEPT ![thr[c].rec].domain = thr[c].data.domain]
    /\ thr' = [thr EXCEPT ![c].tsd = thr[c].rec, ![c].pc = "hook92"]
    /\ UNCHANGED <<bkVars, passVars, libVars>>

\* thread_hook, lines 92-95: r15 is the record, the user's routine starts
HookEnterUser(c) ==
    /\ thr[c].pc = "hook92"
    /\ thr' = [thr EXCEPT ![c].r15 = thr[c].rec, ![c].pc = "user"]
    /\ UNCHANGED <<mem, bkVars, passVars, libVars>>

\* set_domain_value(new_domain) called from user code
UserSetDomain(t, v) ==
    /\ thr[t].pc = "user"
    /\ mem' = [mem EXCEPT ![thr[t].tsd].domain = v]
    /\ UNCHANGED <<thr, bkVars, passVars, libVars>>

\* the store of the unsafety flag the rewriting places before an indirect
\* call: *(r15 + 32) = flag
UserWriteFlag(t, v) ==
    /\ thr[t].pc = "user"
    /\ mem' = [mem EXCEPT ![thr[t].r15].slot32 = v]
    /\ UNCHANGED <<thr, bkVars, passVars, libVars>>

\* the user's routine returns; the record is never freed
ThreadReturn(c) ==
    /\ c # MainThread
    /\ thr[c].pc = "user"
    /\ thr' = [thr EXCEPT ![c].pc = "exited"]
    /\ UNCHANGED <<mem, bkVars, passVars, libVars>>

NextThreads ==
    \/ \E t, c \in Threads : PthreadCreate(t, c)
    \/ \E c \in Threads : HookInstallTemp(c)
    \/ \E c \in Threads : HookAllocate(c)
    \/ \E c \in Threads : HookInstallRecord(c)
    \/ \E c \in Threads : HookEnterUser(c)
    \/ \E t \in Threads, v \in DomainValues : UserSetDomain(t, v)
    \/ \E t \in Threads, v \in FlagBytes : UserWriteFlag(t, v)
    \/ \E c \in Threads : ThreadReturn(c)

SpecThreads == InitThreads /\ [][NextThreads]_vars

\* threads the hooked pthread_create started that are running user code
HookedInUser == {t \in Threads \ {MainThread} : thr[t].pc = "user"}

RecordsApart ==
    \A t \in HookedInUser :
        /\ thr[t].tsd = thr[t].rec
        /\ thr[t].r15 = thr[t].rec
        /\ thr[t].rec # NULL
        /\ mem[thr[t].rec].live
        /\ \A u \in Threads \ {t} : thr[u].rec # thr[t].rec

CarriesCreatorsDomain ==
    \A c \in Threads :
        thr[c].pc = "hook92" => mem[thr[c].rec].domain = thr[c].createdWith

\* a step of thread u
StepOf(u) ==
    \/ \E c \in Threads : PthreadCreate(u, c)
    \/ HookInstallTemp(u)
    \/ HookAllocate(u)
    \/ HookInstallRecord(u)
    \/ HookEnterUser(u)
    \/ \E v \in DomainValues : UserSetDomain(u, v)
    \/ \E v \in FlagBytes : UserWriteFlag(u, v)
    \/ ThreadReturn(u)

OthersLeaveRecordAlone ==
    \A u \in Threads :
        StepOf(u) =>
            \A t \in HookedInUser \ {u} :
                /\ mem'[thr[t].rec].domain = mem[thr[t].rec].domain
                /\ mem'[thr[t].rec].slot32 = mem[thr[t].rec].slot32

\* C13: Thread isolation of the runtime flag.  Every thread started through
\* the hooked pthread_create runs user code with a live domain record of its
\* own, installed as its thread-specific value and as its r15 base and
\* carrying the creator's domain at creation time; the record differs from
\* that of every other thread, and no step of another
\* thread changes the domain or the flag slot the thread reads.
C13_ThreadIsolation ==
    /\ [](RecordsApart /\ CarriesCreatorsDomain)
    /\ [][OthersLeaveRecordAlone]_vars

\* two hooked threads in user code, created in different domains, one of
\* them in a block that was used and freed before, with different flags
C13_Witness ==
    /\ HookedInUser = {1, 2}
    /\ thr[1].createdWith # thr[2].createdWith
    /\ mem[thr[1].rec].slot32 # mem[thr[2].rec].slot32
    /\ \E t \in HookedInUser : thr[t].rec <= 3

(***************************************************************************)
(* Part V: the pass run on one compilation unit after another              *)
(***************************************************************************)
\* the file-scope registries of DDAPass.cpp
Registries ==
    {"CallBaseToCalleeMap", "MpkRedefinedMap", "CallBase2NewCallBase",
     "CallBaseToUnsafeBitsArgs", "UnsafeCallBases",
     "FunctionToUnsafeCallBasesMap", "CallBaseToUnsafeBitMap",
     "EntryReplaceCBNSet", "IndirectCallsToVirtualFunctionMap",
     "UnsafePointers", "IndirectFuncToUnsafeSpaceMap", "IndirectCBMap",
     "IndirectlyDefined"}

\* what a later run of the pass in the same process finds: the module is the
\* new unit's, the registries are what the earlier run left (no statement of
\* DDAPass.cpp clears or reassigns them)
NextUnitDda(d) ==
    [k \in DOMAIN InitDda |-> IF k \in Registries THEN d[k] ELSE InitDda[k]]

\* runOnModule is entered for the next unit, up to the call of
\* findUnsafePointers: selectClient and runPointerAnalysis build the
\* analysis of the unit and touch no registry
StartNextUnit ==
    /\ pc = "done"
    /\ pc' = "nextUnit"
    /\ dda' = NextUnitDda(dda)
    /\ UNCHANGED <<heapPaths, funcQueue, bkVars, restVars>>

NextUnits == NextPass \/ StartNextUnit

SpecUnits == InitPass /\ [][NextUnits]_vars

\* runOnModule is about to start its work on a unit
RunStarts ==
    \/ pc = "nextUnit"
    \/ pc = "heapPaths" /\ dda.handledPaths = <<>>

\* C14: Per-module reset.  Whenever runOnModule starts on a compilation
\* unit every registry is empty: nothing entered while an earlier unit was
\* processed is there.
C14_PerModuleReset ==
    RunStarts => \A k \in Registries : dda[k] = InitDda[k]

(***************************************************************************)
(* The walk over the call string of a discovered path                      *)
(***************************************************************************)
\* paths with a call string that the loop of findUnsafePointers went through
\* without skipping them (outermost caller not a library function, callee
\* of the allocation call not already a clone)
ProcessedChains ==
    {p \in Range(dda.handledPaths) :
        /\ p.calls # <<>>
        /\ ~isRustLibraryFunc(OrigInsts[p.calls[1]].parent)
        /\ ~startsWithMpkUnsafe(OrigInsts[p.loc].callee)}

\* the call site c is registered as an unsafe call site with a bit position
\* among the sites of its function, and its callee is recorded if the call
\* names one
RegisteredSite(c) ==
    /\ c \in dda.UnsafeCallBases
    /\ c \in DOMAIN dda.CallBaseToUnsafeBitMap
    /\ OrigInsts[c].parent \in DOMAIN dda.FunctionToUnsafeCallBasesMap
    /\ c \in dda.FunctionToUnsafeCallBasesMap[OrigInsts[c].parent]
    /\ OrigInsts[c].callee # NullFn =>
          /\ c \in DOMAIN dda.CallBaseToCalleeMap
          /\ dda.CallBaseToCalleeMap[c] = OrigInsts[c].callee

\* position of the call site c in the order in which sites received a bit
BitOrderIndex(c) == CHOOSE n \in DOMAIN dda.bitOrder : dda.bitOrder[n] = c

\* C15: Call-string walk.  For a processed path with call string c1..cn
\* every ci is registered as an unsafe call site with a bit position of its
\* own and with its callee when the call names one, and a site deeper in the
\* chain is not registered after a site further out that the same walk
\* registered.
C15_CallStringWalk ==
    \A p \in ProcessedChains :
        /\ \A i \in DOMAIN p.calls : RegisteredSite(p.calls[i])
        /\ Range(dda.handledPaths) = {p} =>
              \A i, j \in DOMAIN p.calls :
                  i < j => BitOrderIndex(p.calls[j]) < BitOrderIndex(p.calls[i])

\* the site one level deeper than the i-th site of the chain p
DeeperSite(p, i) == IF i = Len(p.calls) THEN p.loc ELSE p.calls[i + 1]

\* C16: Interior bit-set.  The bit set recorded for a call site of a
\* processed call string is the singleton of the bit position of the site
\* one level deeper in the chain, the allocation call for the innermost
\* site.
C16_InteriorBitSet ==
    \A p \in ProcessedChains :
        \A i \in DOMAIN p.calls :
            /\ p.calls[i] \in DOMAIN dda.CallBaseToUnsafeBitsArgs
            /\ DeeperSite(p, i) \in DOMAIN dda.CallBaseToUnsafeBitMap
            /\ dda.CallBaseToUnsafeBitsArgs[p.calls[i]] =
                  {dda.CallBaseToUnsafeBitMap[DeeperSite(p, i)]}

\* paths with an empty call string that the loop did not skip
ProcessedLocal ==
    {p \in Range(dda.handledPaths) :
        /\ p.calls = <<>>
        /\ ~startsWithMpkUnsafe(OrigInsts[p.loc].callee)}

\* C17: Entry-replace marking.  A call site is in the entry-replace set if
\* and only if it is the outermost call site of a processed call string or
\* the allocation call of a processed path with an empty call string.
C17_EntryReplaceMarking ==
    dda.EntryReplaceCBNSet =
        {p.calls[1] : p \in ProcessedChains} \cup {p.loc : p \in ProcessedLocal}

\* a chain of two sites, a local allocation and a chain rooted in a library
\* function have been handled: the outer site of the chain and the local
\* allocation call are marked, the inner site and the library call are not
C17_Witness ==
    /\ pc = "done"
    /\ PathHandled(HeapPath(11, <<1, 5>>))
    /\ PathHandled(HeapPath(4, <<>>))
    /\ PathHandled(HeapPath(11, <<16>>))
    /\ dda.EntryReplaceCBNSet = {1, 4}

\* C18: Allocation-site rule.  The allocation call of a discovered path is
\* registered as an unsafe call site only if the function it calls is not
\* a library function.
C18_AllocationSiteRule ==
    \A p \in Range(dda.handledPaths) :
        p.loc \in dda.UnsafeCallBases => ~isRustLibraryFunc(OrigInsts[p.loc].callee)

(***************************************************************************)
(* Context matching of the backward traversal                              *)
(***************************************************************************)
\* the call-site id of a call or return edge, NoCS for any other edge
EdgeCallSite(e) ==
    IF e.ek = "call" THEN getCSIDAtCall(e)
    ELSE IF e.ek = "ret" THEN getCSIDAtRet(e)
    ELSE NoCS

\* the step enters a new item
ItemEntered == Len(bkStack') = Len(bkStack) + 1
EnteredItem == bkStack'[Len(bkStack')].dpm

\* the step ends the branch: the edge is used up and nothing is recorded
BranchEnded ==
    /\ bkStack' = WithoutEdge(CurEdge)
    /\ backwardVisited' = backwardVisited
    /\ finalAddrDpmSet' = finalAddrDpmSet
    /\ handledLog' = handledLog

\* the step goes on along the edge e with the context cxt: the item at the
\* source of e is entered with that context, or had been entered before
GoesOnWith(e, cxt) ==
    \/ /\ ItemEntered
       /\ EnteredItem.loc = e.src
       /\ EnteredItem.cond.cxt = cxt
       /\ finalAddrDpmSet' \subseteq finalAddrDpmSet \cup {ItemKey(EnteredItem)}
    \/ /\ BranchEnded
       /\ [loc |-> e.src, id |-> Top.dpm.id, cxt |-> cxt] \in backwardVisited

ContextStep ==
    HasEdge =>
        LET e == CurEdge
            cs == EdgeCallSite(e)
            old == Top.dpm.cond.cxt
        IN  (cs # NoCS /\ ~isEdgeInRecursion(cs)) =>
                IF e.ek = "call"
                THEN IF old # <<>> /\ old[Len(old)] = cs
                     THEN GoesOnWith(e, SubSeq(old, 1, Len(old) - 1))
                     ELSE BranchEnded
                ELSE IF cs \in Range(old)
                     THEN BranchEnded
                     ELSE GoesOnWith(e, Append(old, cs))

\* C19: Context matching on non-recursive edges.  A step that crosses a
\* call edge backward does so only when the edge's call-site id is the top
\* of the item's context, and goes on with the context popped; a step that
\* crosses a return edge goes on with the id pushed; on a mismatch the
\* branch ends: no item is entered and no allocation site is recorded.
C19_ContextMatching == [][ContextStep]_vars

\* the traversal has finished; the call edge of site 1 was crossed with
\* <<1>> on the context, which was pushed on the return edge and popped
\* again, and the query that started in g with an empty context did not get
\* into f
C19_Witness ==
    /\ BKFinished /\ ~bkAborted
    /\ [loc |-> 3, id |-> 1, cxt |-> <<1>>] \in backwardVisited
    /\ [loc |-> 11, id |-> 1, cxt |-> <<>>] \in backwardVisited
    /\ [loc |-> 3, id |-> 3, cxt |-> <<>>] \in backwardVisited
    /\ ~\E k \in backwardVisited : k.id = 3 /\ k.loc \in {1, 11}
    /\ \E k \in finalAddrDpmSet : k.cxt = <<5>>

(***************************************************************************)
(* findUnsafePointers on modules with different MPK-Unsafe marks           *)
(***************************************************************************)
\* instructions the earlier compiler stage may have tagged MPK-Unsafe
MarkCandidates == {1, 4, 5, 7, 11}

InitFind ==
    /\ BkIdle
    /\ RestIdle
    /\ pc = "heapPaths"
    /\ heapPaths \in {<<>>} \cup {<<p>> : p \in PathPool}
    /\ \E M \in SUBSET MarkCandidates : dda = [InitDda EXCEPT !.mpkUnsafe = M]
    /\ funcQueue = <<>>

NextFind ==
    \/ FindUnsafeHeapPath
    \/ FindUnsafeStacks
    \/ FindUnsafeValuePtrs

SpecFind == InitFind /\ [][NextFind]_vars

\* C20: Stack-object classification.  After findUnsafePointers every stack
\* allocation in the points-to set of a top-level pointer whose defining
\* instruction or some direct user carries MPK-Unsafe is tagged
\* MPK-Extern-Move, and running the scan again changes nothing.
C20_StackClassification ==
    pc = "copies" =>
        /\ \A i \in DOMAIN PtrNodes :
              (/\ PtrNodes[i].top
               /\ \E m \in dda.mpkUnsafe : m = PtrNodes[i].val \/ m \in PtrNodes[i].users)
                 => \A o \in PtrNodes[i].pts : o.stack => o.ref \in dda.externMove
        /\ TagUnsafeValuePtrs(dda) = dda

\* the scan has run on a module where one pointer is unsafe through its
\* defining instruction only, one through a user (its stack object already
\* tagged by the loop over the final stack items) and one not at all
C20_Witness ==
    /\ pc = "copies"
    /\ dda.mpkUnsafe = {5, 11}
    /\ dda.externMove \cap {17, 18, 19} = {17, 18}
    /\ {61, 62} \subseteq dda.UnsafePointers
    /\ 63 \notin dda.UnsafePointers

(***************************************************************************)
(* Rewriting of calls that lie in indirectly-defined functions             *)
(***************************************************************************)
\* the calls built for a non-entry call that lies in a function of the
\* indirect unsafe-space map which is not a clone
InteriorIndirectCalls ==
    {n \in ReplacedCalleeCalls :
        /\ dda.insts[n].origin \notin EntryReplaceCBNSet
        /\ ~startsWithMpkUnsafe(dda.insts[n].parent)
        /\ dda.insts[n].parent \in dda.IndirectFuncToUnsafeSpaceMap}

\* C21: Interior-indirect flag.  The call built for a non-entry call of a
\* cloned function's original that lies in an indirectly-defined function
\* computes its flag from the value loaded from the function's unsafe-space
\* slot: it passes the registered bitmask of the site when the gating bit of
\* the site is set in the loaded value, and 0 otherwise.
C21_InteriorIndirectFlag ==
    \A n \in InteriorIndirectCalls :
        LET u == dda.insts[n].origin
        IN  /\ dda.insts[n].flag.src = "space"
            /\ SlotReadsOf(dda.insts[n].parent) # {}
            /\ (u \in DOMAIN CallBaseToUnsafeBitMap
                   /\ u \in DOMAIN CallBaseToUnsafeBitsArgs) =>
                  \A loaded \in Bytes :
                      FlagValue(dda.insts[n].flag, loaded) =
                          IF BitIsSet(loaded, CallBaseToUnsafeBitMap[u])
                          THEN OrOfBits(CallBaseToUnsafeBitsArgs[u]) ELSE 0


\* the calls of the module as it was handed to the pass that use the
\* original of a cloned function, are not entry-replace sites and lie in a
\* function that is neither a clone nor in the indirect unsafe-space map
UnresolvableSites ==
    {u \in OrigInstIds :
        /\ OrigInsts[u].kind = "call"
        /\ \E f \in DOMAIN MpkRedefinedMap :
              \/ OrigInsts[u].callee = f
              \/ \E n \in DOMAIN OrigInsts[u].args : OrigInsts[u].args[n].fn = f
        /\ u \notin EntryReplaceCBNSet
        /\ ~startsWithMpkUnsafe(OrigInsts[u].parent)
        /\ OrigInsts[u].parent \notin dda.IndirectFuncToUnsafeSpaceMap}

RewritingOver == pc \in {"erase", "done"}

\* C22 as stated: Unresolvable interior site is fatal.  A non-entry call
\* of a cloned function's original whose enclosing function is neither a
\* clone nor in the indirect unsafe-space map makes the pass abort, so the
\* rewriting is never completed with such a call left as it was.
C22_UnresolvableSiteFatal_AsStated ==
    RewritingOver => UnresolvableSites = {}

\* C22: Unresolvable interior site is skipped.  A non-entry call of a
\* cloned function's original whose enclosing function is neither a clone
\* nor in the indirect unsafe-space map does not stop the pass: when the
\* rewriting is over the call is still in place as it was, no replacement
\* has been built for it and it is not among the erased calls.
C22_UnresolvableSiteSkipped ==
    RewritingOver =>
        \A u \in UnresolvableSites :
            /\ IsLive(dda, u)
            /\ dda.insts[u] = OrigInsts[u]
            /\ ~\E n \in NewCalls : dda.insts[n].origin = u
            /\ u \notin Range(dda.oldCalls)
            /\ u \notin Range(dda.erased)

\* the local allocation in e made k a cloned function; the call of k in g
\* is no entry-replace site and g is neither a clone nor a candidate target
C22_Witness ==
    /\ pc = "done"
    /\ PathHandled(HeapPath(4, <<>>))
    /\ "k" \in DOMAIN MpkRedefinedMap
    /\ 7 \in UnresolvableSites
    /\ 4 \in Range(dda.erased)

(***************************************************************************)
(* Building the replacements, then erasing                                 *)
(***************************************************************************)
\* the calls for which replaceUnsafeCalls built a replacement
ReplacedOriginals == {dda.insts[n].origin : n \in NewCalls}

\* the stores of a flag before an indirect call
SlotWrites == {i \in DOMAIN dda.insts : dda.insts[i].kind = "slotWrite"}

TimesErased(u) == Cardinality({n \in DOMAIN dda.erased : dda.erased[n] = u})

\* C23: Two-phase rewriting.  No original call is erased until every
\* replacement call and every flag write has been built: a step that erases
\* builds nothing and no step after it builds anything.  When the pass is
\* done each original call that received a replacement has been erased
\* exactly once, and no call that was skipped has been erased.
C23_TwoPhaseRewriting ==
    /\ [][/\ dda'.erased # dda.erased =>
                /\ pc = "erase"
                /\ NewCalls' = NewCalls
                /\ SlotWrites' = SlotWrites
          /\ dda.erased # <<>> => (NewCalls' = NewCalls /\ SlotWrites' = SlotWrites)]_vars
    /\ [](pc = "done" =>
            /\ \A u \in ReplacedOriginals : TimesErased(u) = 1
            /\ \A u \in Range(dda.erased) : u \in ReplacedOriginals)

(***************************************************************************)
(* Originals and clones when the call correspondence is recorded           *)
(***************************************************************************)
\* the module at line 232, where organizeCallBlocks has cloned the callees
\* and is about to call mapFunctionCallBases for every pair
AtMapping == CloneCallees(dda, SortedSeq(dda.UnsafeCallBases))

\* the registries as organizeCallBlocks leaves them
AfterMapping == organizeCallBlocks(dda, TRUE)

CallsOf(s, f) ==
    {s.funcs[f].body[n] : n \in MappedPositions(s, f)}

\* the instruction at every position of the clone is the copy of the
\* instruction at that position of the original
SamePositions(s, f) ==
    LET oldB == s.funcs[f].body
        newB == s.funcs[s.MpkRedefinedMap[f]].body
    IN  /\ Len(oldB) = Len(newB)
        /\ \A n \in DOMAIN oldB :
              /\ newB[n] = CloneOffset + oldB[n]
              /\ s.insts[newB[n]].kind = s.insts[oldB[n]].kind

\* C24: Call-instruction correspondence.  When mapFunctionCallBases runs
\* for a pair (original, clone) with a body, whenever the clone was created,
\* both have the same sequence of instructions position by position, and
\* the recorded map is a bijection between the call instructions of the
\* clone and those of the original.
C24_CallCorrespondence ==
    pc = "organize" =>
        \A f \in DOMAIN AtMapping.MpkRedefinedMap :
            ~AtMapping.funcs[f].isDecl =>
                LET clone == AtMapping.MpkRedefinedMap[f]
                    M == AfterMapping.CallBase2NewCallBase
                IN  /\ SamePositions(AtMapping, f)
                    /\ \A c \in CallsOf(AtMapping, clone) :
                          c \in DOMAIN M /\ M[c] \in CallsOf(AtMapping, f)
                    /\ \A c1, c2 \in CallsOf(AtMapping, clone) :
                          (c1 \in DOMAIN M /\ c2 \in DOMAIN M /\ M[c1] = M[c2]) => c1 = c2
                    /\ \A o \in CallsOf(AtMapping, f) :
                          \E c \in CallsOf(AtMapping, clone) : c \in DOMAIN M /\ M[c] = o

(***************************************************************************)
(* The pass as a function of the order of the discovered paths             *)
(***************************************************************************)
RECURSIVE HandleHeapPaths(_, _)
\* lines 536-681: the loop over heapPaths
HandleHeapPaths(s, q) ==
    IF q = <<>> THEN s
    ELSE HandleHeapPaths(HandleHeapPath(s, Head(q)), Tail(q))

RECURSIVE RewriteAll(_, _)
\* lines 266-347: the loop over MpkRedefinedMap
RewriteAll(s, fs) ==
    IF fs = <<>> THEN s
    ELSE RewriteAll(RewriteUsers(s, SortedSeq(RewrittenUsers(s, Head(fs))), Head(fs), 0),
                    Tail(fs))

\* lines 760-773: the pass run on the module with the paths handled in the
\* order q
RunPass(q, asc) ==
    LET s1 == HandleHeapPaths(InitDda, q)
        s2 == TagUnsafeValuePtrs(TagUnsafeStacks(s1))
        s3 == removeDummyLoads(traverseUnsafePointerCopies(s2))
        s4 == organizeCallBlocks(s3, asc)
        s5 == RewriteAll(s4, RedefinedOrder(s4, asc))
        s6 == IndirectWrites(s5, SortedSeq(DOMAIN s5.IndirectCallsToVirtualFunctionMap), 0)
    IN  EraseCalls(s6, s6.oldCalls)

\* the flag operand an instruction passes; the mask of a site that has no
\* gating bit is left out, as it is the result of an undefined shift
PassedFlag(inst) ==
    IF inst.flag.k = "select" /\ ~startsWithMpkUnsafe(inst.parent)
    THEN [inst.flag EXCEPT !.andv = 0]
    ELSE inst.flag

\* what the pass made of the module: the cloned functions, the call sites
\* that were rewritten, and for each built call and flag write the call it
\* stands for, the function it calls and the flag it passes
RewrittenModule(s) ==
    [ clones |-> DOMAIN s.MpkRedefinedMap,
      sites |-> {s.insts[n].origin : n \in {m \in DOMAIN s.insts : s.insts[m].via # NullFn}},
      calls |-> {<<s.insts[n].origin, s.insts[n].callee, PassedFlag(s.insts[n])>> :
                    n \in {m \in DOMAIN s.insts : s.insts[m].via # NullFn}},
      writes |-> {<<s.insts[n].origin, PassedFlag(s.insts[n])>> :
                    n \in {m \in DOMAIN s.insts : s.insts[m].kind = "slotWrite"}} ]

\* the order q with the paths at the positions i and j exchanged
Exchanged(q, i, j) ==
    [n \in DOMAIN q |-> IF n = i THEN q[j] ELSE IF n = j THEN q[i] ELSE q[n]]

\* C25: Determinism.  The rewritten module (the functions cloned, the call
\* sites rewritten and the flag each built call passes) is the same when
\* the discovered paths are handled in another order.
C25_Determinism ==
    pc = "done" =>
        \A i, j \in DOMAIN dda.handledPaths :
            \E asc \in BOOLEAN :
                RewrittenModule(RunPass(Exchanged(dda.handledPaths, i, j), asc))
                    = RewrittenModule(dda)

(***************************************************************************)
(* Width of the flag                                                       *)
(***************************************************************************)
FlagBits == 0..(FlagWidth - 1)

\* C26: Flag width.  Every bit position placed in the unsafe-bit set of a
\* site or used as gating bit lies between 0 and 7, so the constant built
\* for an entry-replace site with a non-empty bit set is never zero and the
\* gating mask built for an interior site is never zero.
C26_FlagWidth ==
    /\ \A c \in DOMAIN CallBaseToUnsafeBitsArgs : CallBaseToUnsafeBitsArgs[c] \subseteq FlagBits
    /\ \A c \in DOMAIN CallBaseToUnsafeBitMap : CallBaseToUnsafeBitMap[c] \in FlagBits
    /\ \A n \in ReplacedCalleeCalls :
          LET u == dda.insts[n].origin
          IN  (u \in EntryReplaceCBNSet /\ CallBaseToUnsafeBitsArgs[u] # {})
                  => dda.insts[n].flag.val # 0
    /\ \A n \in InteriorCalls : dda.insts[n].flag.andv # 0

(***************************************************************************)
(* Calls in clones whose original is no unsafe call site                   *)
(***************************************************************************)
\* the calls built inside clones for the copy of a call that was never
\* registered as unsafe call site
UnregisteredCloneCalls ==
    {n \in ReplacedCalleeCalls :
        /\ startsWithMpkUnsafe(dda.insts[n].parent)
        /\ dda.insts[dda.insts[n].origin].origin \in OrigInstIds
        /\ dda.insts[dda.insts[n].origin].origin \notin UnsafeCallBases}

\* C27: Unregistered calls inside clones stay safe.  The call built for a
\* call inside a clone of the original of a cloned function, whose original
\* call site was never registered as unsafe call site, calls the clone and
\* passes 0 whatever flag the enclosing clone receives.
C27_UnregisteredStaySafe ==
    \A n \in UnregisteredCloneCalls :
        /\ dda.insts[n].callee = MpkRedefinedMap[dda.insts[n].via]
        /\ \A incoming \in Bytes : FlagValue(dda.insts[n].flag, incoming) = 0


(***************************************************************************)
(* Paths rooted in a library function                                      *)
(***************************************************************************)
\* the path findUnsafePointers handles next has a call string whose
\* outermost call site lies in a library function
LibraryRootedNext ==
    /\ pc = "heapPaths"
    /\ heapPaths # <<>>
    /\ Head(heapPaths).calls # <<>>
    /\ OrigInsts[Head(heapPaths).calls[1]].parent \in RustLibraryFunctions

\* C28: Library-rooted paths are ignored.  Handling a path with a non-empty
\* call string whose outermost call site lies in a library function changes
\* no registry: no unsafe call site, no clone, no bit position, no bit set
\* and no entry-replace site is added, and no function or instruction of
\* the module is touched.
C28_LibraryRootedIgnored ==
    [][LibraryRootedNext =>
          /\ \A r \in Registries : dda'[r] = dda[r]
          /\ dda'.funcs = dda.funcs
          /\ dda'.insts = dda.insts
          /\ dda'.cloneCount = dda.cloneCount
          /\ dda'.heapMove = dda.heapMove]_vars

\* the path rooted in lib has been handled after a path that registered
\* the sites 11 and 5: call 16 is in no registry
C28_Witness ==
    /\ dda.handledPaths = <<HeapPath(11, <<5>>), HeapPath(11, <<16>>)>>
    /\ UnsafeCallBases = {11, 5}
    /\ EntryReplaceCBNSet = {5}
    /\ 16 \notin DOMAIN CallBaseToUnsafeBitMap
    /\ DOMAIN MpkRedefinedMap = {"k"}

(***************************************************************************)
(* The contexts of the items the backward traversal visits                 *)
(***************************************************************************)
\* no call-site id twice, and no call site of a recursion
WellFormedContext(cxt) ==
    /\ NoRepeat(cxt)
    /\ \A i \in DOMAIN cxt :
          ~inSameCallGraphSCC(CallSiteTable[cxt[i]].caller, CallSiteTable[cxt[i]].callee)

\* a step along an edge of a recursive call site goes on with the context
\* the item had: popRecursiveCallSites took nothing from it
RecursiveEdgeStep ==
    HasEdge =>
        LET e == CurEdge
            cs == EdgeCallSite(e)
        IN  (cs # NoCS /\ cs \in RecursiveCallSiteIds) => GoesOnWith(e, Top.dpm.cond.cxt)

\* C29: Context well-formedness.  In every item the backward traversal
\* visits, started from an empty context, the call string holds no
\* call-site id more than once and no call site whose caller and callee lie
\* in the same SCC, so popRecursiveCallSites never removes an element from
\* a context.
C29_ContextWellFormed ==
    /\ [](\A k \in backwardVisited : WellFormedContext(k.cxt))
    /\ [](\A n \in DOMAIN bkStack : WellFormedContext(bkStack[n].dpm.cond.cxt))
    /\ [][RecursiveEdgeStep]_vars

\* the traversal went from g into h over the return edge of the recursive
\* call site 3 with the context <<1>>, and visited an item with two ids
C29_Witness ==
    /\ [loc |-> 7, id |-> 1, cxt |-> <<1>>] \in backwardVisited
    /\ \E k \in backwardVisited : Len(k.cxt) = 2

(***************************************************************************)
(* Consistency of the registries                                           *)
(***************************************************************************)
AfterFindUnsafePointers == pc \in {"copies", "dummyLoads", "organize"}
AfterOrganizeCallBlocks == pc \in {"rewrite", "erase", "done"}

\* C30: Registry consistency.  After findUnsafePointers every registered
\* unsafe call site has a bit position and a non-empty unsafe-bit set, and
\* every entry-replace site is a registered unsafe call site; after
\* organizeCallBlocks the callee of every registered unsafe call site with a
\* recorded callee has an entry in the clone map.
C30_RegistryConsistency ==
    /\ AfterFindUnsafePointers =>
          /\ \A c \in UnsafeCallBases :
                /\ c \in DOMAIN CallBaseToUnsafeBitMap
                /\ c \in DOMAIN CallBaseToUnsafeBitsArgs
                /\ CallBaseToUnsafeBitsArgs[c] # {}
          /\ EntryReplaceCBNSet \subseteq UnsafeCallBases
    /\ AfterOrganizeCallBlocks =>
          \A c \in UnsafeCallBases :
              c \in DOMAIN dda.CallBaseToCalleeMap =>
                  dda.CallBaseToCalleeMap[c] \in DOMAIN MpkRedefinedMap

\* after the chain e - g - h - k and the indirect call 3: the allocation
\* call and the outer sites are registered with bit and bit set, and g, the
\* callee of site 1, was cloned by organizeCallBlocks
C30_Witness ==
    /\ pc = "rewrite"
    /\ dda.handledPaths = <<HeapPath(11, <<1, 5>>), HeapPath(11, <<3>>)>>
    /\ UnsafeCallBases = {1, 3, 11}
    /\ EntryReplaceCBNSet = {1, 3}
    /\ 3 \notin DOMAIN dda.CallBaseToCalleeMap
    /\ dda.CallBaseToCalleeMap[1] = "g"
    /\ MpkRedefinedMap["g"] = "__mpk_unsafe_g"
    /\ dda.cloneCount["g"] = 1

============================================================================
